---- MODULE Spec2Model ----
(***************************************************************************)
(* Bank-statement pipeline of the ledger application:                      *)
(*   - the edge function process-bank-statement-ai (Extraction Gateway),   *)
(*     both handlers held by index.ts;                                     *)
(*   - the StatementUpload component (Document Intake, processWithAI);     *)
(*   - the ExtractedTransactionData component (Review/Edit Buffer);        *)
(*   - the BankStatementUpload page (Persistence Writer).                  *)
(*                                                                         *)
(* JavaScript strings are sequences of one-character strings, so that      *)
(* String(), parseFloat() and String.prototype.includes() are computed as  *)
(* the runtime computes them.  JavaScript numbers are fixed-point integers *)
(* counting hundredths (2500.00 is 250000); every amount the model feeds   *)
(* in has at most two fractional digits, where this is exact.              *)
(***************************************************************************)
EXTENDS Integers, Sequences, FiniteSets, TLC

(***************************************************************************)
(* Bounds of the model.                                                    *)
(***************************************************************************)
\* gateway requests served in one behaviour of SpecGateway
MaxRequests == 1

\* rows of a model reply that holds several rows
MaxRawRows == 2

\* processWithAI executions started in one behaviour of Spec
MaxExtractions == 2

\* draft operations applied in one behaviour of SpecEdit
MaxEdits == 2

\* handleSaveTransactions executions started in one behaviour of SpecCommit
MaxCommits == 2

\* extractions, draft operations and commits in one behaviour of SpecPipeline
MaxRuns == 1

\* auth state change events, and logout clicks, in one behaviour of SpecAuth
MaxAuthEvents == 2

(***************************************************************************)
(* String literals of the source.                                          *)
(***************************************************************************)
StrSAMPLE == <<"S", "A", "M", "P", "L", "E">>

\* String(x) of the values that are neither numbers nor strings
Spelled ==
    [undefined |->
        <<"u", "n", "d", "e", "f", "i", "n", "e", "d">>,
     null |->
        <<"n", "u", "l", "l">>,
     NaN |->
        <<"N", "a", "N">>]

\* the string literals the normalization falls back to
DefaultText ==
    [transactionPrefix |->
        <<"T", "r", "a", "n", "s", "a", "c", "t", "i", "o", "n", " ">>,
     unknownTransaction |->
        <<"U", "n", "k", "n", "o", "w", "n", " ", "T", "r", "a", "n", "s", "a", "c", "t", "i", "o", "n">>,
     other |->
        <<"o", "t", "h", "e", "r">>,
     accountNumber |->
        <<"U", "N", "K", "N", "O", "W", "N">>,
     bankName |->
        <<"U", "n", "k", "n", "o", "w", "n", " ", "B", "a", "n", "k">>,
     zero |->
        <<"0">>]

\* the string literals of handler 1's sample data
SampleText1 ==
    [accountNumber |->
        <<"S", "A", "M", "P", "L", "E", "1", "2", "3", "4">>,
     bankName |->
        <<"S", "a", "m", "p", "l", "e", " ", "B", "a", "n", "k">>,
     openingBalance |->
        <<"5", "0", "0", "0", "0", ".", "0", "0">>,
     closingBalance |->
        <<"4", "5", "0", "0", "0", ".", "0", "0">>,
     description1 |->
        <<"S", "A", "M", "P", "L", "E", " ", "-", " ", "H", "P", " ", "P", "E", "T", "R", "O", "L", " ", "P", "U", "M", "P", " ", "M", "U", "M", "B", "A", "I">>,
     description2 |->
        <<"S", "A", "M", "P", "L", "E", " ", "-", " ", "O", "F", "F", "I", "C", "E", " ", "R", "E", "N", "T", " ", "P", "A", "Y", "M", "E", "N", "T">>,
     referenceNumber1 |->
        <<"S", "A", "M", "P", "L", "E", "1", "2", "3", "4", "5", "6">>,
     referenceNumber2 |->
        <<"S", "A", "M", "P", "L", "E", "7", "8", "9", "0", "1", "2">>,
     category1 |->
        <<"f", "u", "e", "l", "_", "e", "x", "p", "e", "n", "s", "e">>,
     category2 |->
        <<"r", "e", "n", "t", "_", "e", "x", "p", "e", "n", "s", "e">>]

\* the string literals of handler 2's sample data
SampleText2 ==
    [accountNumber |->
        <<"X", "X", "X", "X", "1", "2", "3", "4">>,
     bankName |->
        <<"S", "a", "m", "p", "l", "e", " ", "B", "a", "n", "k">>,
     openingBalance |->
        <<"5", "0", "0", "0", "0", ".", "0", "0">>,
     closingBalance |->
        <<"4", "5", "0", "0", "0", ".", "0", "0">>,
     description1 |->
        <<"H", "P", " ", "P", "E", "T", "R", "O", "L", " ", "P", "U", "M", "P", " ", "M", "U", "M", "B", "A", "I">>,
     description2 |->
        <<"O", "F", "F", "I", "C", "E", " ", "R", "E", "N", "T", " ", "P", "A", "Y", "M", "E", "N", "T">>,
     description3 |->
        <<"C", "L", "I", "E", "N", "T", " ", "P", "A", "Y", "M", "E", "N", "T", " ", "R", "E", "C", "E", "I", "V", "E", "D">>,
     description4 |->
        <<"E", "L", "E", "C", "T", "R", "I", "C", "I", "T", "Y", " ", "B", "I", "L", "L", " ", "M", "S", "E", "B">>,
     description5 |->
        <<"C", "O", "N", "S", "T", "R", "U", "C", "T", "I", "O", "N", " ", "M", "A", "T", "E", "R", "I", "A", "L", " ", "P", "U", "R", "C", "H", "A", "S", "E">>,
     debitAmount1 |->
        <<"2", "5", "0", "0", ".", "0", "0">>,
     debitAmount2 |->
        <<"2", "5", "0", "0", "0", ".", "0", "0">>,
     creditAmount3 |->
        <<"5", "0", "0", "0", "0", ".", "0", "0">>,
     debitAmount4 |->
        <<"3", "5", "0", "0", ".", "0", "0">>,
     debitAmount5 |->
        <<"1", "5", "0", "0", "0", ".", "0", "0">>,
     balance1 |->
        <<"4", "7", "5", "0", "0", ".", "0", "0">>,
     balance2 |->
        <<"2", "2", "5", "0", "0", ".", "0", "0">>,
     balance3 |->
        <<"7", "2", "5", "0", "0", ".", "0", "0">>,
     balance4 |->
        <<"6", "9", "0", "0", "0", ".", "0", "0">>,
     balance5 |->
        <<"5", "4", "0", "0", "0", ".", "0", "0">>,
     referenceNumber1 |->
        <<"T", "X", "N", "1", "2", "3", "4", "5", "6">>,
     referenceNumber2 |->
        <<"C", "H", "Q", "7", "8", "9", "0", "1", "2">>,
     referenceNumber3 |->
        <<"N", "E", "F", "T", "3", "4", "5", "6", "7", "8">>,
     referenceNumber4 |->
        <<"A", "U", "T", "O", "9", "0", "1", "2", "3", "4">>,
     referenceNumber5 |->
        <<"C", "H", "Q", "5", "6", "7", "8", "9", "0">>,
     category3 |->
        <<"s", "a", "l", "e", "s", "_", "i", "n", "c", "o", "m", "e">>,
     category4 |->
        <<"u", "t", "i", "l", "i", "t", "i", "e", "s", "_", "e", "x", "p", "e", "n", "s", "e">>,
     category5 |->
        <<"c", "o", "n", "s", "t", "r", "u", "c", "t", "i", "o", "n", "_", "e", "x", "p", "e", "n", "s", "e">>]

Today == <<"2", "0", "2", "5", "-", "0", "6", "-", "2", "8">>

ThirtyDaysAgo == <<"2", "0", "2", "5", "-", "0", "5", "-", "2", "9">>

(***************************************************************************)
(* JavaScript values: undefined, null, NaN, a number, a string.  One       *)
(* record shape for all of them keeps the values comparable.               *)
(***************************************************************************)
Undefined == [t |-> "undefined", n |-> 0, s |-> <<>>]

Null == [t |-> "null", n |-> 0, s |-> <<>>]

NaN == [t |-> "nan", n |-> 0, s |-> <<>>]

Num(n) == [t |-> "num", n |-> n, s |-> <<>>]

Str(s) == [t |-> "str", n |-> 0, s |-> s]

\* ToBoolean: the operand test of ||, ! and if
Truthy(v) ==
    CASE v.t = "num" -> v.n # 0
      [] v.t = "str" -> v.s # <<>>
      [] OTHER -> FALSE

\* a || b
Or(a, b) == IF Truthy(a) THEN a ELSE b

DigitChars == <<"0", "1", "2", "3", "4", "5", "6", "7", "8", "9">>

IsDigit(c) == \E d \in 1..10 : DigitChars[d] = c

DigitVal(c) == (CHOOSE d \in 1..10 : DigitChars[d] = c) - 1

RECURSIVE NatStr(_)
\* decimal digits of a natural number
NatStr(k) ==
    IF k < 10 THEN <<DigitChars[k + 1]>>
    ELSE NatStr(k \div 10) \o <<DigitChars[(k % 10) + 1]>>

\* Number.prototype.toString of a number held in hundredths
NumStr(n) ==
    LET a == IF n < 0 THEN -n ELSE n
        ip == a \div 100
        fp == a % 100
        frac == IF fp = 0 THEN <<>>
                ELSE IF fp % 10 = 0 THEN <<".", DigitChars[(fp \div 10) + 1]>>
                ELSE <<".", DigitChars[(fp \div 10) + 1], DigitChars[(fp % 10) + 1]>>
    IN  (IF n < 0 THEN <<"-">> ELSE <<>>) \o NatStr(ip) \o frac

\* String(v), and the ToString that parseFloat and includes apply
JSString(v) ==
    CASE v.t = "undefined" -> Spelled.undefined
      [] v.t = "null" -> Spelled.null
      [] v.t = "nan" -> Spelled.NaN
      [] v.t = "num" -> NumStr(v.n)
      [] OTHER -> v.s

RECURSIVE DigitRun(_, _)
\* the number of digits of s starting at position i
DigitRun(s, i) ==
    IF i <= Len(s) /\ IsDigit(s[i]) THEN 1 + DigitRun(s, i + 1) ELSE 0

RECURSIVE DigitsValue(_, _, _)
\* the value of the k digits of s starting at position i
DigitsValue(s, i, k) ==
    IF k = 0 THEN 0
    ELSE 10 * DigitsValue(s, i, k - 1) + DigitVal(s[i + k - 1])

RECURSIVE SkipSpaces(_, _)
SkipSpaces(s, i) ==
    IF i <= Len(s) /\ s[i] = " " THEN SkipSpaces(s, i + 1) ELSE i

\* parseFloat of a string: leading blanks, a sign, the longest decimal
\* prefix; NaN when there is none.  Exponents and "Infinity" are outside
\* the strings of the model.
ParseFloatStr(s) ==
    LET i0 == SkipSpaces(s, 1)
        neg == i0 <= Len(s) /\ s[i0] = "-"
        i1 == IF i0 <= Len(s) /\ s[i0] \in {"-", "+"} THEN i0 + 1 ELSE i0
        ni == DigitRun(s, i1)
        dot == (i1 + ni) <= Len(s) /\ s[i1 + ni] = "."
        nf == IF dot THEN DigitRun(s, i1 + ni + 1) ELSE 0
        ip == DigitsValue(s, i1, ni)
        f1 == IF nf >= 1 THEN DigitVal(s[i1 + ni + 1]) ELSE 0
        f2 == IF nf >= 2 THEN DigitVal(s[i1 + ni + 2]) ELSE 0
        mag == 100 * ip + 10 * f1 + f2
    IN  IF ni = 0 /\ nf = 0 THEN NaN
        ELSE Num(IF neg THEN -mag ELSE mag)

\* parseFloat(v)
ParseFloat(v) == ParseFloatStr(JSString(v))

\* the number of a numeric JavaScript value after "|| 0"
OrZero(v) == IF Truthy(v) THEN v.n ELSE 0

RECURSIVE IncludesFrom(_, _, _)
IncludesFrom(s, sub, i) ==
    IF i + Len(sub) - 1 > Len(s) THEN FALSE
    ELSE IF SubSeq(s, i, i + Len(sub) - 1) = sub THEN TRUE
    ELSE IncludesFrom(s, sub, i + 1)

\* String.prototype.includes
Includes(s, sub) == IncludesFrom(s, sub, 1)

\* CREATE TYPE public.ledger_category AS ENUM (...): the 26 category values
ledger_category ==
    {<<"t", "r", "a", "v", "e", "l", "_", "e", "x", "p", "e", "n", "s", "e">>,
     <<"f", "u", "e", "l", "_", "e", "x", "p", "e", "n", "s", "e">>,
     <<"o", "f", "f", "i", "c", "e", "_", "e", "x", "p", "e", "n", "s", "e">>,
     <<"c", "o", "n", "s", "t", "r", "u", "c", "t", "i", "o", "n", "_", "e", "x", "p", "e", "n", "s", "e">>,
     <<"m", "a", "t", "e", "r", "i", "a", "l", "_", "e", "x", "p", "e", "n", "s", "e">>,
     <<"s", "a", "l", "a", "r", "y", "_", "e", "x", "p", "e", "n", "s", "e">>,
     <<"r", "e", "n", "t", "_", "e", "x", "p", "e", "n", "s", "e">>,
     <<"u", "t", "i", "l", "i", "t", "i", "e", "s", "_", "e", "x", "p", "e", "n", "s", "e">>,
     <<"p", "r", "o", "f", "e", "s", "s", "i", "o", "n", "a", "l", "_", "f", "e", "e", "s">>,
     <<"m", "a", "r", "k", "e", "t", "i", "n", "g", "_", "e", "x", "p", "e", "n", "s", "e">>,
     <<"m", "a", "i", "n", "t", "e", "n", "a", "n", "c", "e", "_", "e", "x", "p", "e", "n", "s", "e">>,
     <<"i", "n", "s", "u", "r", "a", "n", "c", "e", "_", "e", "x", "p", "e", "n", "s", "e">>,
     <<"s", "a", "l", "e", "s", "_", "i", "n", "c", "o", "m", "e">>,
     <<"s", "e", "r", "v", "i", "c", "e", "_", "i", "n", "c", "o", "m", "e">>,
     <<"o", "t", "h", "e", "r", "_", "i", "n", "c", "o", "m", "e">>,
     <<"c", "g", "s", "t", "_", "p", "a", "y", "a", "b", "l", "e">>,
     <<"s", "g", "s", "t", "_", "p", "a", "y", "a", "b", "l", "e">>,
     <<"i", "g", "s", "t", "_", "p", "a", "y", "a", "b", "l", "e">>,
     <<"c", "g", "s", "t", "_", "r", "e", "c", "e", "i", "v", "a", "b", "l", "e">>,
     <<"s", "g", "s", "t", "_", "r", "e", "c", "e", "i", "v", "a", "b", "l", "e">>,
     <<"i", "g", "s", "t", "_", "r", "e", "c", "e", "i", "v", "a", "b", "l", "e">>,
     <<"a", "c", "c", "o", "u", "n", "t", "s", "_", "p", "a", "y", "a", "b", "l", "e">>,
     <<"a", "c", "c", "o", "u", "n", "t", "s", "_", "r", "e", "c", "e", "i", "v", "a", "b", "l", "e">>,
     <<"c", "a", "s", "h">>,
     <<"b", "a", "n", "k">>,
     <<"o", "t", "h", "e", "r">>}

(***************************************************************************)
(* Extraction Gateway: supabase/functions/process-bank-statement-ai.       *)
(* index.ts holds two handlers; Variants names them: 1 is the handler of   *)
(* lines 9-227, 2 the handler of lines 237-436.                            *)
(***************************************************************************)
Variants == {1, 2}

TxFields ==
    {"date", "description", "debitAmount", "creditAmount", "balance",
     "referenceNumber", "category"}

\* a transaction object of the model's JSON: every field a JavaScript value,
\* Undefined when the key is absent
RawRow(date, description, debitAmount, creditAmount, balance, referenceNumber, category) ==
    [date |-> date, description |-> description, debitAmount |-> debitAmount,
     creditAmount |-> creditAmount, balance |-> balance,
     referenceNumber |-> referenceNumber, category |-> category]

\* statementPeriod: absent, or an object whose bounds may be absent
NoPeriod == [kind |-> "undefined", from |-> Undefined, to |-> Undefined]

Period(from, to) == [kind |-> "object", from |-> from, to |-> to]

\* transactions: absent, a value that is no array, or an array of rows
NoTransactions == [kind |-> "undefined", rows |-> <<>>]

NotAnArray == [kind |-> "other", rows |-> <<>>]

Rows(rows) == [kind |-> "array", rows |-> rows]

\* the object JSON.parse yields for "{}"
EmptyObject ==
    [accountNumber |-> Undefined, bankName |-> Undefined,
     statementPeriod |-> NoPeriod, openingBalance |-> Undefined,
     closingBalance |-> Undefined, transactions |-> NoTransactions]

\* the sample record of handler 1
SampleData1 ==
    [accountNumber |-> Str(SampleText1.accountNumber), bankName |-> Str(SampleText1.bankName),
     statementPeriod |-> Period(Str(ThirtyDaysAgo), Str(Today)),
     openingBalance |-> Str(SampleText1.openingBalance), closingBalance |-> Str(SampleText1.closingBalance),
     transactions |-> Rows(<<
        RawRow(Str(Today), Str(SampleText1.description1), Num(250000), Num(0), Num(4750000),
               Str(SampleText1.referenceNumber1), Str(SampleText1.category1)),
        RawRow(Str(Today), Str(SampleText1.description2), Num(2500000), Num(0), Num(2250000),
               Str(SampleText1.referenceNumber2), Str(SampleText1.category2)) >>)]

\* the sample record of handler 2
SampleData2 ==
    [accountNumber |-> Str(SampleText2.accountNumber), bankName |-> Str(SampleText2.bankName),
     statementPeriod |-> Period(Str(ThirtyDaysAgo), Str(Today)),
     openingBalance |-> Str(SampleText2.openingBalance), closingBalance |-> Str(SampleText2.closingBalance),
     transactions |-> Rows(<<
        RawRow(Str(Today), Str(SampleText2.description1), Str(SampleText2.debitAmount1), Str(DefaultText.zero), Str(SampleText2.balance1),
               Str(SampleText2.referenceNumber1), Str(SampleText1.category1)),
        RawRow(Str(Today), Str(SampleText2.description2), Str(SampleText2.debitAmount2), Str(DefaultText.zero), Str(SampleText2.balance2),
               Str(SampleText2.referenceNumber2), Str(SampleText1.category2)),
        RawRow(Str(Today), Str(SampleText2.description3), Str(DefaultText.zero), Str(SampleText2.creditAmount3), Str(SampleText2.balance3),
               Str(SampleText2.referenceNumber3), Str(SampleText2.category3)),
        RawRow(Str(Today), Str(SampleText2.description4), Str(SampleText2.debitAmount4), Str(DefaultText.zero), Str(SampleText2.balance4),
               Str(SampleText2.referenceNumber4), Str(SampleText2.category4)),
        RawRow(Str(Today), Str(SampleText2.description5), Str(SampleText2.debitAmount5), Str(DefaultText.zero), Str(SampleText2.balance5),
               Str(SampleText2.referenceNumber5), Str(SampleText2.category5)) >>)]

SampleData(variant) == IF variant = 1 THEN SampleData1 ELSE SampleData2

\* handler 1, the "Ensure only one of debit or credit is non-zero" step
EnsureOneSided(clean) ==
    IF clean.debitAmount.n > 0 THEN [clean EXCEPT !.creditAmount = Num(0)]
    ELSE IF clean.creditAmount.n > 0 THEN [clean EXCEPT !.debitAmount = Num(0)]
    ELSE clean

\* the amounts parsed without "|| 0": the fault that lets NaN through
cleanTransactionNoFallback(transaction, index) ==
    [date |-> Or(transaction.date, Str(Today)),
     description |->
        Str(JSString(Or(transaction.description,
                        Str(DefaultText.transactionPrefix \o NatStr(index + 1))))),
     debitAmount |-> ParseFloat(Str(JSString(Or(transaction.debitAmount, Num(0))))),
     creditAmount |-> ParseFloat(Str(JSString(Or(transaction.creditAmount, Num(0))))),
     balance |-> ParseFloat(Str(JSString(Or(transaction.balance, Num(0))))),
     referenceNumber |-> Str(JSString(Or(transaction.referenceNumber, Str(<<>>)))),
     category |-> Or(transaction.category, Str(DefaultText.other))]

\* a debit written as a negative amount: a sign convention that is applied
\* again each time a row passes
cleanTransactionSignedDebit(transaction, index) ==
    [date |-> Or(transaction.date, Str(Today)),
     description |->
        Str(JSString(Or(transaction.description,
                        Str(DefaultText.transactionPrefix \o NatStr(index + 1))))),
     debitAmount |->
        Num(0 - OrZero(ParseFloat(Str(JSString(Or(transaction.debitAmount, Num(0))))))),
     creditAmount |->
        Num(OrZero(ParseFloat(Str(JSString(Or(transaction.creditAmount, Num(0))))))),
     balance |->
        Num(OrZero(ParseFloat(Str(JSString(Or(transaction.balance, Num(0))))))),
     referenceNumber |-> Str(JSString(Or(transaction.referenceNumber, Str(<<>>)))),
     category |-> Or(transaction.category, Str(DefaultText.other))]

\* handler 1, const cleanTransaction = {...}; index is the 0-based array index
cleanTransaction(transaction, index) ==
    [date |-> Or(transaction.date, Str(Today)),
     description |->
        Str(JSString(Or(transaction.description,
                        Str(DefaultText.transactionPrefix \o NatStr(index + 1))))),
     debitAmount |->
        Num(OrZero(ParseFloat(Str(JSString(Or(transaction.debitAmount, Num(0))))))),
     creditAmount |->
        Num(OrZero(ParseFloat(Str(JSString(Or(transaction.creditAmount, Num(0))))))),
     balance |->
        Num(OrZero(ParseFloat(Str(JSString(Or(transaction.balance, Num(0))))))),
     referenceNumber |-> Str(JSString(Or(transaction.referenceNumber, Str(<<>>)))),
     category |-> Or(transaction.category, Str(DefaultText.other))]

\* handler 1, the map callback
CleanTransaction1(transaction, index) ==
    EnsureOneSided(cleanTransaction(transaction, index))

\* handler 2, the map callback
CleanTransaction2(transaction, index) ==
    [date |-> Or(transaction.date, Str(Today)),
     description |-> Or(transaction.description, Str(DefaultText.unknownTransaction)),
     debitAmount |-> Num(OrZero(ParseFloat(transaction.debitAmount))),
     creditAmount |-> Num(OrZero(ParseFloat(transaction.creditAmount))),
     balance |-> Num(OrZero(ParseFloat(transaction.balance))),
     referenceNumber |-> Or(transaction.referenceNumber, Str(<<>>)),
     category |-> Or(transaction.category, Str(DefaultText.other))]

CleanTransaction(variant, transaction, index) ==
    IF variant = 1 THEN CleanTransaction1(transaction, index)
    ELSE CleanTransaction2(transaction, index)

RECURSIVE DatedRows(_)
\* the rows that carry a date
DatedRows(rows) ==
    IF rows = <<>> THEN <<>>
    ELSE (IF Truthy(Head(rows).date) THEN <<Head(rows)>> ELSE <<>>) \o DatedRows(Tail(rows))

\* a normalization that drops the rows without a date: the fault that
\* loses rows and renumbers the rest
NormalizeTransactionsDated(variant, transactions) ==
    LET rows == IF transactions.kind = "array" THEN DatedRows(transactions.rows) ELSE <<>>
    IN  [i \in 1..Len(rows) |-> CleanTransaction(variant, rows[i], i - 1)]

\* "Validate and clean": a missing or non-array transactions value becomes
\* [], then every row is mapped
NormalizeTransactions(variant, transactions) ==
    LET rows == IF transactions.kind = "array" THEN transactions.rows ELSE <<>>
    IN  [i \in 1..Len(rows) |-> CleanTransaction(variant, rows[i], i - 1)]

\* handler 1, "Validate required fields"; handler 2 has no such step
DefaultTopLevel(variant, extracted) ==
    IF variant = 1
    THEN [accountNumber |-> Or(extracted.accountNumber, Str(DefaultText.accountNumber)),
          bankName |-> Or(extracted.bankName, Str(DefaultText.bankName)),
          openingBalance |-> Str(JSString(Or(extracted.openingBalance, Str(DefaultText.zero)))),
          closingBalance |-> Str(JSString(Or(extracted.closingBalance, Str(DefaultText.zero)))),
          statementPeriod |->
            IF extracted.statementPeriod.kind = "object"
            THEN extracted.statementPeriod
            ELSE Period(Str(ThirtyDaysAgo), Str(Today))]
    ELSE [accountNumber |-> extracted.accountNumber,
          bankName |-> extracted.bankName,
          openingBalance |-> extracted.openingBalance,
          closingBalance |-> extracted.closingBalance,
          statementPeriod |-> extracted.statementPeriod]

\* the extractedData of a success response
Normalize(variant, extracted) ==
    LET top == DefaultTopLevel(variant, extracted)
    IN  [accountNumber |-> top.accountNumber, bankName |-> top.bankName,
         statementPeriod |-> top.statementPeriod,
         openingBalance |-> top.openingBalance,
         closingBalance |-> top.closingBalance,
         transactions |-> NormalizeTransactions(variant, extracted.transactions)]

\* the extractedData slot of a response that carries none
NoData ==
    [accountNumber |-> Undefined, bankName |-> Undefined,
     statementPeriod |-> NoPeriod, openingBalance |-> Undefined,
     closingBalance |-> Undefined, transactions |-> <<>>]

\* the two Response bodies of a handler.  hasData says whether the body has
\* an extractedData key; error is the text of error.message ("" when the body
\* has no error key), errorStatus and errorBody the upstream status and body
\* a template literal put into it (0 and <<>> when it has none)
SuccessResponse(data) ==
    [success |-> TRUE, hasData |-> TRUE, extractedData |-> data, error |-> "",
     errorStatus |-> 0, errorBody |-> <<>>, status |-> 200]

ErrorResponse(message) ==
    [success |-> FALSE, hasData |-> FALSE, extractedData |-> NoData, error |-> message,
     errorStatus |-> 0, errorBody |-> <<>>, status |-> 500]

(***************************************************************************)
(* The model's reply.  The generated text is a sequence of tokens: an      *)
(* opening brace, a closing brace, a stretch of prose without braces, or   *)
(* the members of one JSON object (obj is what JSON.parse reads from       *)
(* them).                                                                  *)
(***************************************************************************)
LBrace == [k |-> "{", obj |-> EmptyObject]

RBrace == [k |-> "}", obj |-> EmptyObject]

Prose == [k |-> "prose", obj |-> EmptyObject]

Members(obj) == [k |-> "members", obj |-> obj]

\* generatedText.match(/\{[\s\S]*\}/): from the first "{" to the last "}"
\* behind it; <<>> stands for null (a match is never empty)
JsonMatch(generatedText) ==
    LET opens == {i \in 1..Len(generatedText) : generatedText[i].k = "{"}
        first == CHOOSE i \in opens : \A j \in opens : i <= j
        closes == {i \in 1..Len(generatedText) :
                      generatedText[i].k = "}" /\ opens # {} /\ i > first}
        last == CHOOSE i \in closes : \A j \in closes : j <= i
    IN  IF opens = {} \/ closes = {} THEN <<>>
        ELSE SubSeq(generatedText, first, last)

\* JSON.parse of the candidate: an object when the candidate is exactly one
\* object, a SyntaxError otherwise
JsonParses(candidate) ==
    \/ candidate = <<LBrace, RBrace>>
    \/ /\ Len(candidate) = 3
       /\ candidate[1] = LBrace
       /\ candidate[2].k = "members"
       /\ candidate[3] = RBrace

JsonParse(candidate) ==
    IF Len(candidate) = 3 THEN candidate[2].obj ELSE EmptyObject

\* the upstream reply: geminiResponse.ok, its status, and its text: of a
\* reply that is ok the text of candidates[0].content.parts[0].text (hasText
\* FALSE when that path is absent), of one that is not the body read by
\* geminiResponse.text()
Upstream(ok, status, hasText, text) ==
    [ok |-> ok, status |-> status, hasText |-> hasText, text |-> text]

\* lines 168-215 and 402-425
Finish(variant, extracted) == SuccessResponse(Normalize(variant, extracted))

\* the Response for a reply that is not ok: lines 101-105 and 315-318
UpstreamFailed(variant, upstream) ==
    IF variant = 1
    THEN [ErrorResponse("Gemini API request failed: ${geminiResponse.status} - ${errorText}")
            EXCEPT !.errorStatus = upstream.status, !.errorBody = upstream.text]
    ELSE ErrorResponse("Failed to process bank statement with Gemini API")

\* a handler that answers an unparseable candidate with an empty record: the
\* best-effort recovery the handlers do not have
AfterFetchBestEffort(variant, upstream) ==
    IF ~upstream.ok
    THEN UpstreamFailed(variant, upstream)
    ELSE IF ~upstream.hasText \/ upstream.text = <<>>
    THEN ErrorResponse("No text generated from Gemini API")
    ELSE IF JsonMatch(upstream.text) = <<>>
    THEN ErrorResponse("No JSON found in Gemini response")
    ELSE IF ~JsonParses(JsonMatch(upstream.text))
    THEN Finish(variant, EmptyObject)
    ELSE Finish(variant, JsonParse(JsonMatch(upstream.text)))

\* lines 101-132 and 315-340, then Finish
AfterFetch(variant, upstream) ==
    IF ~upstream.ok
    THEN UpstreamFailed(variant, upstream)
    ELSE IF ~upstream.hasText \/ upstream.text = <<>>
    THEN ErrorResponse("No text generated from Gemini API")
    ELSE IF JsonMatch(upstream.text) = <<>>
    THEN ErrorResponse(IF variant = 1 THEN "No valid JSON found in Gemini response"
                       ELSE "No JSON found in Gemini response")
    ELSE IF ~JsonParses(JsonMatch(upstream.text))
    THEN ErrorResponse(IF variant = 1
                       THEN "Invalid JSON from Gemini API: ${parseError.message}"
                       ELSE "Invalid JSON from Gemini API")
    ELSE Finish(variant, JsonParse(JsonMatch(upstream.text)))

\* the no-image branch: lines 133-166 and 341-400, then Finish
SampleFallback(variant) == Finish(variant, SampleData(variant))

\* the missing-credential branch: lines 25-29 and 253-256
MissingKey(variant) ==
    ErrorResponse(IF variant = 1
                  THEN "Gemini API key not configured. Please set GEMINI_API_KEY in your environment variables."
                  ELSE "Gemini API key not configured")

(***************************************************************************)
(* Inputs of the gateway: request bodies and upstream replies.             *)
(***************************************************************************)
\* further strings of the model's JSON
ReplyText ==
    [n900 |->
        <<"9", "0", "0">>,
     minus5 |->
        <<"-", "5">>,
     groceries |->
        <<"g", "r", "o", "c", "e", "r", "i", "e", "s">>,
     acct |->
        <<"0", "0", "1", "1", "2", "2", "3", "3">>,
     bank |->
        <<"S", "t", "a", "t", "e", " ", "B", "a", "n", "k">>,
     n1000 |->
        <<"1", "0", "0", "0", ".", "5", "0">>,
     n100 |->
        <<"1", "0", "0">>,
     abc |->
        <<"a", "b", "c">>,
     FUEL |->
        <<"F", "U", "E", "L">>,
     date |->
        <<"2", "0", "2", "4", "-", "0", "1", "-", "0", "5">>,
     image |->
        <<"Q", "U", "J", "D">>]

\* raw debitAmount / creditAmount values of a reply: absent, null, zero,
\* positive, negative, numeric strings, a non-numeric string, the empty string
RawAmounts ==
    {Undefined, Null, Num(0), Num(10000), Num(-250), Str(ReplyText.n100), Str(DefaultText.zero),
     Str(ReplyText.minus5), Str(ReplyText.abc), Str(<<>>)}

\* one-row replies range over every pair of raw amounts
RawRowsWide ==
    {RawRow(Str(ReplyText.date), Str(ReplyText.FUEL), a, b, Str(ReplyText.n900), Undefined, Str(SampleText1.category1)) :
        a \in RawAmounts, b \in RawAmounts}

\* rows of the replies that hold several rows
RawRowsFew ==
    {RawRow(Str(ReplyText.date), Str(ReplyText.FUEL), Str(ReplyText.n100), Str(DefaultText.zero), Str(ReplyText.n900),
            Undefined, Str(SampleText1.category1)),
     RawRow(Undefined, Undefined, Num(10000), Num(2500), Undefined, Undefined, Undefined),
     RawRow(Str(ReplyText.date), Str(StrSAMPLE), Num(-500), Num(-500), Num(0),
            Str(SampleText2.referenceNumber1), Str(ReplyText.groceries))}

RECURSIVE SeqsUpTo(_, _)
\* the sequences over S of length 0..n
SeqsUpTo(S, n) ==
    IF n = 0 THEN {<<>>}
    ELSE LET shorter == SeqsUpTo(S, n - 1)
         IN  shorter \cup {Append(q, x) : q \in {r \in shorter : Len(r) = n - 1}, x \in S}

RawTransactions ==
    {NoTransactions, NotAnArray} \cup {Rows(q) : q \in SeqsUpTo(RawRowsFew, MaxRawRows)}

\* the statement-level members of a reply
RawHeaders ==
    {[accountNumber |-> Undefined, bankName |-> Undefined, statementPeriod |-> NoPeriod,
      openingBalance |-> Undefined, closingBalance |-> Undefined],
     [accountNumber |-> Str(ReplyText.acct), bankName |-> Str(ReplyText.bank),
      statementPeriod |-> Period(Str(ReplyText.date), Str(Today)),
      openingBalance |-> Str(ReplyText.n1000), closingBalance |-> Num(90000)],
     [accountNumber |-> Str(SampleText2.accountNumber), bankName |-> Str(<<>>),
      statementPeriod |-> Period(Str(ReplyText.date), Undefined),
      openingBalance |-> Null, closingBalance |-> Str(<<>>)]}

RawObject(h, txs) ==
    [accountNumber |-> h.accountNumber, bankName |-> h.bankName,
     statementPeriod |-> h.statementPeriod, openingBalance |-> h.openingBalance,
     closingBalance |-> h.closingBalance, transactions |-> txs]

\* the statement-level members of the one-row replies
PlainHeader ==
    [accountNumber |-> Str(ReplyText.acct), bankName |-> Str(ReplyText.bank),
     statementPeriod |-> Period(Str(ReplyText.date), Str(Today)),
     openingBalance |-> Str(ReplyText.n1000), closingBalance |-> Num(90000)]

RawObjectsWide == {RawObject(PlainHeader, Rows(<<r>>)) : r \in RawRowsWide}

RawObjects == {RawObject(h, txs) : h \in RawHeaders, txs \in RawTransactions}

\* texts around one object: bare, wrapped in prose, followed by prose that
\* holds a "}", followed by a second object
TextsOf(obj) ==
    {<<LBrace, Members(obj), RBrace>>,
     <<Prose, LBrace, Members(obj), RBrace, Prose>>,
     <<LBrace, Members(obj), RBrace, Prose, RBrace>>,
     <<LBrace, Members(obj), RBrace, Prose, LBrace, RBrace>>}

Upstreams ==
    {Upstream(FALSE, 429, FALSE, <<Prose>>), Upstream(FALSE, 500, FALSE, <<>>),
     Upstream(TRUE, 200, FALSE, <<>>),
     Upstream(TRUE, 200, TRUE, <<>>), Upstream(TRUE, 200, TRUE, <<Prose>>),
     Upstream(TRUE, 200, TRUE, <<LBrace, RBrace>>)}
    \cup {Upstream(TRUE, 200, TRUE, <<LBrace, Members(o), RBrace>>) : o \in RawObjectsWide}
    \cup {Upstream(TRUE, 200, TRUE, t) : t \in UNION {TextsOf(o) : o \in RawObjects}}

\* imageBase64 of a request body: absent, empty, a payload
Images == {Undefined, Str(<<>>), Str(ReplyText.image)}

(***************************************************************************)
(* Document Intake: components/bank/StatementUpload.tsx, StatementUpload.  *)
(***************************************************************************)
\* handleFileSelect: const maxSize = 10 * 1024 * 1024
maxSize == 10485760

\* handleFileSelect: const allowedTypes
allowedTypes == {"image/jpeg", "image/png", "image/jpg", "application/pdf"}

File(name, size, type) == [name |-> name, size |-> size, type |-> type]

\* selectedFile === null
NoFile == File("", 0, "")

\* the files a user may pick or drop: a readable image, a zero-byte image,
\* a JPEG of exactly the cap, a PDF one byte over the cap, a text file
Files ==
    {File("scan.png", 2048, "image/png"), File("empty.png", 0, "image/png"),
     File("edge.jpg", maxSize, "image/jpg"),
     File("big.pdf", maxSize + 1, "application/pdf"), File("notes.txt", 64, "text/plain")}

\* a size check that turns the cap itself away: the fault at the boundary
FileTooLargeAtCap(file) == file.size >= maxSize

\* the two early returns of handleFileSelect
FileTooLarge(file) == file.size > maxSize

InvalidFileType(file) == file.type \notin allowedTypes

\* reader.readAsDataURL(file): the part of the data URL behind "base64,".
\* Only whether the payload is empty is read downstream (the gateway's
\* "if (imageBase64)"), so every non-empty file has the payload ReplyText.image.
Base64Of(file) == IF file.size = 0 THEN <<>> ELSE ReplyText.image

StrDataPrefix == <<"d", "a", "t", "a", ":", ";", "b", "a", "s", "e", "6", "4", ",">>

DataURL(file) == StrDataPrefix \o Base64Of(file)

\* result.split(',')[1]: what lies between the first and the second comma
SplitComma1(s) ==
    LET commas == {i \in 1..Len(s) : s[i] = ","}
        c1 == CHOOSE i \in commas : \A j \in commas : i <= j
        later == {i \in commas : i > c1}
        c2 == IF later = {} THEN Len(s) + 1
              ELSE CHOOSE i \in later : \A j \in later : i <= j
    IN  IF commas = {} THEN Undefined ELSE Str(SubSeq(s, c1 + 1, c2 - 1))

\* convertFileToBase64, when the reader loads
convertFileToBase64(file) == SplitComma1(DataURL(file))

(***************************************************************************)
(* supabase.functions.invoke: the whole handler runs while the client      *)
(* awaits; a response that is not 2xx comes back as { data: null, error }. *)
(***************************************************************************)
\* the handler of the deployment, start to Response
Serve(e, imageBase64, upstream) ==
    IF Truthy(imageBase64)
    THEN IF ~e.hasKey THEN MissingKey(e.variant) ELSE AfterFetch(e.variant, upstream)
    ELSE SampleFallback(e.variant)

\* upstream replies of the pipeline specification
ReplyTwoRows ==
    Upstream(TRUE, 200, TRUE,
        <<LBrace,
          Members(RawObject(PlainHeader,
              Rows(<<RawRow(Str(ReplyText.date), Str(ReplyText.FUEL), Str(ReplyText.n100), Str(DefaultText.zero),
                            Str(ReplyText.n900), Undefined, Str(SampleText1.category1)),
                     RawRow(Str(ReplyText.date), Str(SampleText2.description2), Num(10000), Num(2500),
                            Num(80000), Str(SampleText2.referenceNumber2), Str(SampleText1.category2))>>))),
          RBrace>>)

ReplyNoRows ==
    Upstream(TRUE, 200, TRUE, <<LBrace, Members(RawObject(PlainHeader, NoTransactions)), RBrace>>)

ClientUpstreams == {Upstream(FALSE, 429, FALSE, <<Prose>>), ReplyTwoRows, ReplyNoRows}

(***************************************************************************)
(* State.                                                                  *)
(***************************************************************************)
VARIABLES
    env,            \* the deployment: which handler serves, whether GEMINI_API_KEY is set
    gw,             \* the gateway's request in progress (SpecGateway)
    user,           \* useAuth().user of the page session
    upload,         \* StatementUpload: uploading, processing, selectedFile, processingStep
    ext,            \* the processWithAI executions started, in order
    storage,        \* the files uploaded to the 'bills' bucket
    sent,           \* the files whose payload was sent to the gateway
    page,           \* BankStatementUpload: saving, extractedData
    review,         \* ExtractedTransactionData: isEditing, editData
    commits,        \* the handleSaveTransactions executions started, in order
    db,             \* bank_statements and bank_transactions
    auth            \* AuthProvider: its state, its calls in flight, profiles and companies

vars == <<env, gw, user, upload, ext, storage, sent, page, review, commits, db, auth>>

clientVars == <<user, upload, ext, storage, sent, page, review, commits, db, auth>>

Envs == [variant : Variants, hasKey : BOOLEAN]

NoResponse == ErrorResponse("")

GwIdle(served) ==
    [pc |-> "idle", image |-> Undefined, calls |-> 0, served |-> served,
     upstream |-> Upstream(FALSE, 0, FALSE, <<>>), response |-> NoResponse]

(***************************************************************************)
(* The handler as a state machine: the request arrives, the fetch of the   *)
(* vision model is the one suspension point, the Response is returned.     *)
(***************************************************************************)
\* serve(async (req) => ...) up to the fetch: lines 15-31 and 243-258
GwRequest(imageBase64) ==
    /\ gw.pc = "idle"
    /\ gw.served < MaxRequests
    /\ gw' = IF Truthy(imageBase64)
             THEN IF ~env.hasKey
                  THEN [gw EXCEPT !.pc = "done", !.image = imageBase64,
                                  !.response = MissingKey(env.variant)]
                  ELSE [gw EXCEPT !.pc = "fetch", !.image = imageBase64,
                                  !.calls = gw.calls + 1]
             ELSE [gw EXCEPT !.pc = "done", !.image = imageBase64,
                             !.response = SampleFallback(env.variant)]
    /\ UNCHANGED <<env, clientVars>>

\* the fetch settles and the handler runs to its Response
GwUpstream(upstream) ==
    /\ gw.pc = "fetch"
    /\ gw' = [gw EXCEPT !.pc = "done", !.upstream = upstream,
                         !.response = AfterFetch(env.variant, upstream)]
    /\ UNCHANGED <<env, clientVars>>

\* the Response is delivered; the function keeps no state between requests
GwReturn ==
    /\ gw.pc = "done"
    /\ gw' = GwIdle(gw.served + 1)
    /\ UNCHANGED <<env, clientVars>>

(***************************************************************************)
(* The page session: StatementUpload, BankStatementUpload and              *)
(* ExtractedTransactionData.  A click handler runs to its first await in   *)
(* one step and React renders before the next event, so the render guards  *)
(* of a button read the state its handler left.  A handler's closure keeps *)
(* the selectedFile, extractedData and user of the render it came from.    *)
(***************************************************************************)
Users == {"u1"}

NoUser == ""

\* the draft operation applied last and the draft it was applied to
\* (history kept to state the operations' effects), n the operations so far
NoOp ==
    [op |-> "none", index |-> 0, field |-> "", value |-> Undefined, before |-> NoData,
     n |-> 0]

\* ExtractedTransactionData is mounted only while extractedData is set
Unmounted == [isEditing |-> FALSE, editData |-> NoData, last |-> NoOp]

Mounted(data) == [isEditing |-> FALSE, editData |-> data, last |-> NoOp]

\* offered is the file the latest handleFileSelect call was given and toast
\* the title of the notification that call showed ("" when it showed none)
UploadIdle ==
    [uploading |-> FALSE, processing |-> FALSE, selectedFile |-> NoFile,
     processingStep |-> "", offered |-> NoFile, toast |-> ""]

ClientStart ==
    /\ upload = UploadIdle
    /\ ext = <<>>
    /\ storage = {}
    /\ sent = {}
    /\ page = [saving |-> FALSE, hasData |-> FALSE, extractedData |-> NoData]
    /\ review = Unmounted
    /\ commits = <<>>
    /\ db = [bank_statements |-> {}, bank_transactions |-> {}]

\* a handleFileSelect that checks the size alone: the fault that lets a file
\* of a foreign type through
handleFileSelectSizeOnly(selectedFile, file) ==
    IF FileTooLarge(file) THEN selectedFile ELSE file

\* handleFileSelect: the selectedFile it leaves
handleFileSelect(selectedFile, file) ==
    IF FileTooLarge(file) THEN selectedFile
    ELSE IF InvalidFileType(file) THEN selectedFile
    ELSE file

\* handleFileSelect: the toast it shows
fileSelectToast(file) ==
    IF FileTooLarge(file) THEN "File too large"
    ELSE IF InvalidFileType(file) THEN "Invalid file type"
    ELSE ""

\* handleFileInputChange: the picker opens from the "Select Bank Statement"
\* button, disabled while uploading or processing
PickFile(file) ==
    /\ ~upload.uploading /\ ~upload.processing
    /\ upload' = [upload EXCEPT !.selectedFile = handleFileSelect(upload.selectedFile, file),
                                !.offered = file,
                                !.toast = fileSelectToast(file)]
    /\ UNCHANGED <<env, auth, gw, user, ext, storage, sent, page, review, commits, db>>

\* handleDrop: the drop zone is never disabled
DropFile(file) ==
    /\ upload' = [upload EXCEPT !.selectedFile = handleFileSelect(upload.selectedFile, file),
                                !.offered = file,
                                !.toast = fileSelectToast(file)]
    /\ UNCHANGED <<env, auth, gw, user, ext, storage, sent, page, review, commits, db>>

\* a "Process with AI" button rendered whenever a file is selected: the
\* fault that lets a second extraction start
ProcessButtonWhileBusy(u) == u.selectedFile # NoFile

\* the render condition of the "Process with AI" button
ProcessButtonShown(u) ==
    u.selectedFile # NoFile /\ ~u.processing /\ ~u.uploading

\* an execution of processWithAI is between its start and its settlement
ExtInFlight(i) == ext[i].pc # "done"

\* processWithAI up to the await of the storage upload; uploads and invokes
\* count the storage.upload and functions.invoke calls of the execution
ProcessClick ==
    /\ ProcessButtonShown(upload)
    /\ Len(ext) < MaxExtractions
    /\ IF upload.selectedFile = NoFile \/ user = NoUser
       THEN UNCHANGED <<upload, ext>>
       ELSE /\ upload' = [upload EXCEPT !.processing = TRUE, !.uploading = TRUE,
                                        !.processingStep = "Uploading file..."]
            /\ ext' = Append(ext, [pc |-> "upload", file |-> upload.selectedFile,
                                   imageBase64 |-> Undefined, toasts |-> 0,
                                   toast |-> "", extracted |-> FALSE,
                                   uploads |-> 1, invokes |-> 0])
    /\ UNCHANGED <<env, auth, gw, user, storage, sent, page, review, commits, db>>

\* a catch block that starts the execution over instead of giving up: the
\* retry loop processWithAI does not have
ExtFailRetry(i) ==
    /\ ext' = [ext EXCEPT ![i].pc = "upload", ![i].toasts = ext[i].toasts + 1,
                           ![i].toast = "Error processing bank statement",
                           ![i].uploads = ext[i].uploads + 1]
    /\ upload' = [upload EXCEPT !.uploading = TRUE, !.processing = TRUE,
                                !.processingStep = "Uploading file..."]

\* no catch block: the promise of processWithAI rejects, nothing is shown;
\* the handler processWithAI is not
ExtFailUncaught(i) ==
    /\ ext' = [ext EXCEPT ![i].pc = "rejected"]
    /\ upload' = [upload EXCEPT !.uploading = FALSE, !.processing = FALSE,
                                !.processingStep = ""]

\* catch without the finally block: the toast is shown and the progress
\* state stays as the failing step left it
ExtFailNoFinally(i) ==
    /\ ext' = [ext EXCEPT ![i].pc = "done", ![i].toasts = ext[i].toasts + 1,
                           ![i].toast = "Error processing bank statement"]
    /\ UNCHANGED upload

\* catch and finally of processWithAI: one destructive toast, progress reset
ExtFail(i) ==
    /\ ext' = [ext EXCEPT ![i].pc = "done", ![i].toasts = ext[i].toasts + 1,
                           ![i].toast = "Error processing bank statement"]
    /\ upload' = [upload EXCEPT !.uploading = FALSE, !.processing = FALSE,
                                !.processingStep = ""]

\* the storage upload settles
UploadSettle(i, ok) ==
    /\ i \in 1..Len(ext) /\ ext[i].pc = "upload"
    /\ IF ok
       THEN /\ storage' = storage \cup {ext[i].file}
            /\ ext' = [ext EXCEPT ![i].pc = "convert"]
            /\ upload' = [upload EXCEPT !.uploading = FALSE,
                            !.processingStep = "Converting file for AI processing..."]
       ELSE /\ ExtFail(i)
            /\ UNCHANGED storage
    /\ UNCHANGED <<env, auth, gw, user, sent, page, review, commits, db>>

\* the FileReader settles; on load the gateway is invoked with the payload
ConvertSettle(i, ok) ==
    /\ i \in 1..Len(ext) /\ ext[i].pc = "convert"
    /\ IF ok
       THEN /\ ext' = [ext EXCEPT ![i].pc = "invoke",
                                  ![i].imageBase64 = convertFileToBase64(ext[i].file),
                                  ![i].invokes = ext[i].invokes + 1]
            /\ upload' = [upload EXCEPT
                            !.processingStep = "Analyzing bank statement with AI..."]
            /\ sent' = sent \cup {ext[i].file}
       ELSE /\ ExtFail(i)
            /\ UNCHANGED sent
    /\ UNCHANGED <<env, auth, gw, user, storage, page, review, commits, db>>

\* "Validate that we have real data, not sample data"
hasRealData(extractedData) ==
    /\ Len(extractedData.transactions) > 0
    /\ ~Includes(JSString(extractedData.transactions[1].description), StrSAMPLE)

\* handleDataExtracted: setExtractedData(data); the review card mounts with
\* the data when none was shown, and keeps its own state otherwise
handleDataExtracted(data) ==
    /\ page' = [page EXCEPT !.hasData = TRUE, !.extractedData = data]
    /\ review' = IF page.hasData THEN review ELSE Mounted(data)

\* processWithAI from the settlement of functions.invoke on: reached says
\* whether a Response came back at all, response is the one the handler gave
InvokeResult(i, reached, response) ==
    /\ LET aiError == ~reached \/ response.status # 200
       IN  IF ~aiError /\ response.success /\ response.hasData
           THEN /\ handleDataExtracted(response.extractedData)
                /\ ext' = [ext EXCEPT ![i].pc = "done", ![i].extracted = TRUE,
                              ![i].toasts = ext[i].toasts + 1,
                              ![i].toast = IF hasRealData(response.extractedData)
                                           THEN "Bank statement processed successfully"
                                           ELSE "AI Processing Notice"]
                /\ upload' = [upload EXCEPT !.selectedFile = NoFile,
                                !.uploading = FALSE, !.processing = FALSE,
                                !.processingStep = ""]
           ELSE /\ ExtFail(i)
                /\ UNCHANGED <<page, review>>
    /\ UNCHANGED <<env, auth, user, storage, sent, commits, db>>

\* the gateway invocation settles: upstream is what the vision model replied
\* to the handler
InvokeSettle(i, reached, upstream) ==
    /\ i \in 1..Len(ext) /\ ext[i].pc = "invoke"
    /\ InvokeResult(i, reached, Serve(env, ext[i].imageBase64, upstream))
    /\ UNCHANGED gw

(***************************************************************************)
(* Review/Edit Buffer controls and the Persistence Writer:                 *)
(* pages/BankStatementUpload.tsx, BankStatementUpload.                     *)
(***************************************************************************)
\* the records processWithAI can hand to onDataExtracted under deployment e
HandedOver(e) ==
    LET responses ==
            {Serve(e, convertFileToBase64(file), upstream) :
                file \in {f \in Files : handleFileSelect(NoFile, f) = f},
                upstream \in ClientUpstreams}
    IN  {r.extractedData : r \in {x \in responses : x.status = 200 /\ x.success /\ x.hasData}}

\* HandedOver, tabulated per deployment
HandedOverBy == [e \in Envs |-> HandedOver(e)]

\* handleEdit
handleEdit ==
    /\ page.hasData /\ ~review.isEditing
    /\ review' = [isEditing |-> TRUE, editData |-> page.extractedData,
                  last |-> [NoOp EXCEPT !.n = review.last.n]]
    /\ UNCHANGED <<env, auth, gw, user, upload, ext, storage, sent, page, commits, db>>

\* a "Save Changes" that leaves edit mode without onDataChange(editData)
handleSaveEditDropped ==
    /\ page.hasData /\ review.isEditing
    /\ review' = [review EXCEPT !.isEditing = FALSE]
    /\ UNCHANGED <<env, auth, gw, user, upload, ext, storage, sent, page, commits, db>>

\* handleSaveEdit: onDataChange(editData), i.e. handleDataChange
handleSaveEdit ==
    /\ page.hasData /\ review.isEditing
    /\ page' = [page EXCEPT !.extractedData = review.editData]
    /\ review' = [review EXCEPT !.isEditing = FALSE]
    /\ UNCHANGED <<env, auth, gw, user, upload, ext, storage, sent, commits, db>>

\* a "Cancel" that leaves edit mode and keeps the draft as it is: the
\* reset handleCancelEdit would lack
handleCancelEditKeeping ==
    /\ page.hasData /\ review.isEditing
    /\ review' = [review EXCEPT !.isEditing = FALSE]
    /\ UNCHANGED <<env, auth, gw, user, upload, ext, storage, sent, page, commits, db>>

\* handleCancelEdit
handleCancelEdit ==
    /\ page.hasData /\ review.isEditing
    /\ review' = [isEditing |-> FALSE, editData |-> page.extractedData,
                  last |-> [NoOp EXCEPT !.n = review.last.n]]
    /\ UNCHANGED <<env, auth, gw, user, upload, ext, storage, sent, page, commits, db>>

\* a Cancel that also aborts the commits in flight: the cancellation
\* handleCancel does not have
handleCancelAborting ==
    /\ page.hasData
    /\ page' = [saving |-> FALSE, hasData |-> FALSE, extractedData |-> NoData]
    /\ review' = Unmounted
    /\ commits' = [c \in 1..Len(commits) |-> [commits[c] EXCEPT !.pc = "done"]]
    /\ UNCHANGED <<env, auth, gw, user, upload, ext, storage, sent, db>>

\* handleCancel, from the card's Cancel (shown outside edit mode) or the
\* page-level Cancel (shown whenever extractedData is set)
handleCancel ==
    /\ page.hasData
    /\ page' = [page EXCEPT !.hasData = FALSE, !.extractedData = NoData]
    /\ review' = Unmounted
    /\ UNCHANGED <<env, auth, gw, user, upload, ext, storage, sent, commits, db>>

\* a handleSaveTransactions execution is between its start and its settlement
CommitInFlight(c) == commits[c].pc # "done"

\* a row built without the header's id and the owner: the fault that
\* detaches the rows from their statement
transactionWithoutIds(transaction, statementId, userId) ==
    [statement_id |-> 0, user_id |-> NoUser,
     transaction_date |-> transaction.date, description |-> transaction.description,
     debit_amount |-> transaction.debitAmount, credit_amount |-> transaction.creditAmount,
     balance |-> transaction.balance, reference_number |-> transaction.referenceNumber,
     category |-> transaction.category]

\* the row handleSaveTransactions builds for bank_transactions
transactionWithIds(transaction, statementId, userId) ==
    [statement_id |-> statementId, user_id |-> userId,
     transaction_date |-> transaction.date, description |-> transaction.description,
     debit_amount |-> transaction.debitAmount, credit_amount |-> transaction.creditAmount,
     balance |-> transaction.balance, reference_number |-> transaction.referenceNumber,
     category |-> transaction.category]

\* handleSaveTransactions up to the await of the bank_statements insert;
\* headerInserts and rowInserts count the insert calls on the two tables
handleSaveTransactions ==
    /\ Len(commits) < MaxCommits
    /\ IF ~page.hasData \/ user = NoUser
       THEN UNCHANGED <<page, commits>>
       ELSE /\ page' = [page EXCEPT !.saving = TRUE]
            /\ commits' = Append(commits,
                    [pc |-> "header", extractedData |-> page.extractedData,
                     user |-> user, statementId |-> 0, invoked |-> <<>>,
                     toasts |-> 0, toast |-> "", failedAt |-> "",
                     headerInserts |-> 1, rowInserts |-> 0])
    /\ UNCHANGED <<env, auth, gw, user, upload, ext, storage, sent, review, db>>

\* the card's "Save Transactions" button: shown outside edit mode, never disabled
SaveClickCard ==
    /\ page.hasData /\ ~review.isEditing
    /\ handleSaveTransactions

\* the page-level "Save N Transactions" button: disabled={saving}
SaveClickPage ==
    /\ page.hasData /\ ~page.saving
    /\ handleSaveTransactions

\* a catch block that undoes the commit's writes: the compensating
\* rollback handleSaveTransactions does not have
CommitFailRollback(c) ==
    /\ commits' = [commits EXCEPT ![c].pc = "done", ![c].toasts = commits[c].toasts + 1,
                                  ![c].toast = "Error saving bank statement",
                                  ![c].failedAt = commits[c].pc]
    /\ page' = [page EXCEPT !.saving = FALSE]
    /\ db' = [bank_statements |->
                {r \in db.bank_statements : r.id # commits[c].statementId},
              bank_transactions |->
                {r \in db.bank_transactions :
                    r.row.statement_id # commits[c].statementId}]
    /\ UNCHANGED review

\* a catch block that also drops the statement under review: the reset
\* the failure path does not have
CommitFailDiscarding(c) ==
    /\ commits' = [commits EXCEPT ![c].pc = "done", ![c].toasts = commits[c].toasts + 1,
                                  ![c].toast = "Error saving bank statement",
                                  ![c].failedAt = commits[c].pc]
    /\ page' = [saving |-> FALSE, hasData |-> FALSE, extractedData |-> NoData]
    /\ review' = Unmounted
    /\ UNCHANGED db

\* catch and finally of handleSaveTransactions; failedAt keeps the await
\* that threw
CommitFail(c) ==
    /\ commits' = [commits EXCEPT ![c].pc = "done", ![c].toasts = commits[c].toasts + 1,
                                  ![c].toast = "Error saving bank statement",
                                  ![c].failedAt = commits[c].pc]
    /\ page' = [page EXCEPT !.saving = FALSE]
    /\ UNCHANGED <<review, db>>

\* the tail of the try block and finally: success toast, setExtractedData(null)
CommitSucceed(c, invoked) ==
    /\ commits' = [commits EXCEPT ![c].pc = "done", ![c].invoked = invoked,
                                  ![c].toasts = commits[c].toasts + 1,
                                  ![c].toast = "Bank statement processed successfully"]
    /\ page' = [saving |-> FALSE, hasData |-> FALSE, extractedData |-> NoData]
    /\ review' = Unmounted

\* createBankTransactionLedgerEntries(transaction, user.id) is called
LedgerCall(transaction, userId) == [transaction |-> transaction, userId |-> userId]

\* the id the store generates for a new bank_statements row: one no row has
GeneratedId(rows) == CHOOSE id \in 1..(Cardinality(rows) + 1) : \A r \in rows : r.id # id

\* the bank_statements insert settles; on success the bulk insert is issued
HeaderSettle(c, ok) ==
    /\ c \in 1..Len(commits) /\ commits[c].pc = "header"
    /\ IF ok
       THEN LET id == GeneratedId(db.bank_statements)
            IN  /\ db' = [db EXCEPT !.bank_statements =
                            @ \cup {[id |-> id, user_id |-> commits[c].user,
                                     processed |-> TRUE]}]
                /\ commits' = [commits EXCEPT ![c].pc = "rows", ![c].statementId = id,
                                              ![c].rowInserts = commits[c].rowInserts + 1]
                /\ UNCHANGED <<page, review>>
       ELSE CommitFail(c)
    /\ UNCHANGED <<env, auth, gw, user, upload, ext, storage, sent>>

\* the bank_transactions insert settles; on success the loop over
\* extractedData.transactions starts with its first call
RowsSettle(c, ok) ==
    /\ c \in 1..Len(commits) /\ commits[c].pc = "rows"
    /\ LET transactions == commits[c].extractedData.transactions
       IN  IF ok
           THEN /\ db' = [db EXCEPT !.bank_transactions = @ \cup
                            {[seq |-> i,
                              row |-> transactionWithIds(transactions[i],
                                          commits[c].statementId, commits[c].user)] :
                                i \in 1..Len(transactions)}]
                /\ IF Len(transactions) = 0
                   THEN CommitSucceed(c, <<>>)
                   ELSE /\ commits' = [commits EXCEPT ![c].pc = "ledger",
                                ![c].invoked = <<LedgerCall(transactions[1], commits[c].user)>>]
                        /\ UNCHANGED <<page, review>>
           ELSE CommitFail(c)
    /\ UNCHANGED <<env, auth, gw, user, upload, ext, storage, sent>>

\* one createBankTransactionLedgerEntries call settles: it resolves and the
\* loop goes on, or it throws
LedgerSettle(c, ok) ==
    /\ c \in 1..Len(commits) /\ commits[c].pc = "ledger"
    /\ LET transactions == commits[c].extractedData.transactions
           k == Len(commits[c].invoked)
       IN  IF ok
           THEN /\ UNCHANGED db
                /\ IF k < Len(transactions)
                   THEN /\ commits' = [commits EXCEPT ![c].invoked =
                               Append(@, LedgerCall(transactions[k + 1], commits[c].user))]
                        /\ UNCHANGED <<page, review>>
                   ELSE CommitSucceed(c, commits[c].invoked)
           ELSE CommitFail(c)
    /\ UNCHANGED <<env, auth, gw, user, upload, ext, storage, sent>>

(***************************************************************************)
(* Review/Edit Buffer: components/bank/StatementUpload.tsx,                *)
(* ExtractedTransactionData.  Every function below returns the editData of *)
(* the next render; prev is the state React passes to the updater,         *)
(* editData the state of the render the handler came from.  index is the   *)
(* 0-based row index of the source.                                        *)
(***************************************************************************)
ScalarFields == {"accountNumber", "bankName", "openingBalance", "closingBalance"}

PeriodFields == {"from", "to"}

NumericFields == {"debitAmount", "creditAmount", "balance"}

\* handleInputChange(field, value)
handleInputChange(prev, field, value) == [prev EXCEPT ![field] = value]

\* handlePeriodChange(field, value)
handlePeriodChange(prev, field, value) ==
    [prev EXCEPT !.statementPeriod = [@ EXCEPT ![field] = value]]

\* an update applied to every row: the fault that touches sibling rows
handleTransactionChangeAll(prev, editData, index, field, value) ==
    [prev EXCEPT !.transactions =
        [j \in 1..Len(editData.transactions) |->
            [editData.transactions[j] EXCEPT ![field] = value]]]

\* handleTransactionChange(index, field, value)
handleTransactionChange(prev, editData, index, field, value) ==
    LET newTransactions ==
            [editData.transactions EXCEPT ![index + 1] = [@ EXCEPT ![field] = value]]
    IN  [prev EXCEPT !.transactions = newTransactions]

\* a blank row put in front of the others: the fault that shifts every
\* existing row
addTransactionFirst(prev) ==
    [prev EXCEPT !.transactions =
        <<[date |-> Str(Today), description |-> Str(<<>>),
           debitAmount |-> Num(0), creditAmount |-> Num(0), balance |-> Num(0),
           referenceNumber |-> Str(<<>>), category |-> Str(DefaultText.other)]>> \o @]

\* addTransaction()
addTransaction(prev) ==
    [prev EXCEPT !.transactions =
        Append(@, [date |-> Str(Today), description |-> Str(<<>>),
                   debitAmount |-> Num(0), creditAmount |-> Num(0), balance |-> Num(0),
                   referenceNumber |-> Str(<<>>), category |-> Str(DefaultText.other)])]

RECURSIVE FilterOut(_, _, _)
\* rows.filter((_, i) => i !== index), from 0-based position i on
FilterOut(rows, index, i) ==
    IF i >= Len(rows) THEN <<>>
    ELSE (IF i # index THEN <<rows[i + 1]>> ELSE <<>>) \o FilterOut(rows, index, i + 1)

\* a filter that is off by one row: the fault that removes the row behind
\* the one asked for
removeTransactionNext(prev, index) ==
    [prev EXCEPT !.transactions = FilterOut(@, index + 1, 0)]

\* removeTransaction(index)
removeTransaction(prev, index) ==
    [prev EXCEPT !.transactions = FilterOut(@, index, 0)]

\* what an input widget hands to handleTransactionChange for the typed text:
\* parseFloat(e.target.value) || 0 for the amount fields, the text otherwise
WidgetValue(field, text) ==
    IF field \in NumericFields THEN Num(OrZero(ParseFloatStr(text))) ELSE Str(text)

\* the texts typed into (or options chosen in) the widget of a row field
TextsFor(field) ==
    CASE field \in NumericFields -> {ReplyText.n100, ReplyText.abc}
      [] field = "category" -> {SampleText1.category2}
      [] field = "date" -> {ReplyText.date}
      [] OTHER -> {ReplyText.FUEL}

\* the 0-based indices of the rows the table renders in edit mode
RowIndices == 0..(Len(review.editData.transactions) - 1)

\* the bookkeeping of a draft operation
Did(op, index, field, value) ==
    [op |-> op, index |-> index, field |-> field, value |-> value,
     before |-> review.editData, n |-> review.last.n + 1]

\* the widgets of the draft are rendered in edit mode only
CanEdit == page.hasData /\ review.isEditing /\ review.last.n < MaxEdits

InputChange(field, text) ==
    /\ CanEdit
    /\ review' = [review EXCEPT
                    !.editData = handleInputChange(review.editData, field, Str(text)),
                    !.last = Did("handleInputChange", 0, field, Str(text))]
    /\ UNCHANGED <<env, auth, gw, user, upload, ext, storage, sent, page, commits, db>>

PeriodChange(field, text) ==
    /\ CanEdit
    /\ review' = [review EXCEPT
                    !.editData = handlePeriodChange(review.editData, field, Str(text)),
                    !.last = Did("handlePeriodChange", 0, field, Str(text))]
    /\ UNCHANGED <<env, auth, gw, user, upload, ext, storage, sent, page, commits, db>>

\* a widget of row index changes; the table maps over editData.transactions
TransactionChange(index, field, text) ==
    /\ CanEdit
    /\ index \in 0..(Len(review.editData.transactions) - 1)
    /\ LET value == WidgetValue(field, text)
       IN  review' = [review EXCEPT
                        !.editData = handleTransactionChange(review.editData,
                                        review.editData, index, field, value),
                        !.last = Did("handleTransactionChange", index, field, value)]
    /\ UNCHANGED <<env, auth, gw, user, upload, ext, storage, sent, page, commits, db>>

AddTransaction ==
    /\ CanEdit
    /\ review' = [review EXCEPT !.editData = addTransaction(review.editData),
                                !.last = Did("addTransaction", 0, "", Undefined)]
    /\ UNCHANGED <<env, auth, gw, user, upload, ext, storage, sent, page, commits, db>>

\* the remove button of a row is rendered when the draft has more than one row
RemoveTransaction(index) ==
    /\ CanEdit
    /\ Len(review.editData.transactions) > 1
    /\ index \in 0..(Len(review.editData.transactions) - 1)
    /\ review' = [review EXCEPT !.editData = removeTransaction(review.editData, index),
                                !.last = Did("removeTransaction", index, "", Undefined)]
    /\ UNCHANGED <<env, auth, gw, user, upload, ext, storage, sent, page, commits, db>>

\* two handlers of one render run before the next render: addTransaction
\* or removeTransaction(0), then handleTransactionChange of a rendered row.
\* React applies the two updaters in order; the second was built from the
\* editData of the render, and before keeps the state it was applied to
TransactionChangeBeforeRender(earlier, index, field, text) ==
    /\ CanEdit
    /\ index \in 0..(Len(review.editData.transactions) - 1)
    /\ earlier = "removeTransaction" => Len(review.editData.transactions) > 1
    /\ LET value == WidgetValue(field, text)
           pending == IF earlier = "addTransaction"
                      THEN addTransaction(review.editData)
                      ELSE removeTransaction(review.editData, 0)
       IN  review' = [review EXCEPT
                        !.editData = handleTransactionChange(pending, review.editData,
                                                             index, field, value),
                        !.last = [Did("handleTransactionChange", index, field, value)
                                    EXCEPT !.before = pending]]
    /\ UNCHANGED <<env, auth, gw, user, upload, ext, storage, sent, page, commits, db>>

(***************************************************************************)
(* AuthProvider (the second component of pages/BankStatementUpload.tsx).   *)
(* The effect subscribes to onAuthStateChange and calls getSession; both   *)
(* callbacks await fetchOrCreateProfile, which awaits a select on          *)
(* profiles, for an organization an insert into companies, and an insert   *)
(* into profiles.  Each await is a step; the requests of different calls   *)
(* reach the store in any order.  profiles.id is the primary key of its    *)
(* table; companies has a generated id and no other unique column.         *)
(***************************************************************************)
NoSessionUser == [id |-> "", user_type |-> "", company_name |-> ""]

\* the users that sign in: session.user with the user_metadata read at
\* lines 364-369 (user_type || 'individual' is spelled out)
AuthUsers ==
    {[id |-> "u1", user_type |-> "individual", company_name |-> ""],
     [id |-> "u2", user_type |-> "organization", company_name |-> "Acme"]}

NoProfile == [id |-> "", company_id |-> 0]

\* the provider after its first render and its effect: loading, the
\* subscription made and getSession() awaited
AuthStart ==
    [user |-> NoSessionUser, session |-> NoSessionUser, profile |-> NoProfile,
     loading |-> TRUE, mounted |-> TRUE, events |-> 0, logouts |-> 0,
     loggingOut |-> FALSE,
     calls |-> <<[caller |-> "getSession", pc |-> "getSession",
                  user |-> NoSessionUser, companyId |-> 0]>>,
     profiles |-> {}, companies |-> {}]

\* fetchOrCreateProfile has returned profileData to call k: the rest of the
\* callback, if (mounted && profileData) setProfile(profileData);
\* setLoading(false)
ProfileReturned(k, profileData, profiles, companies) ==
    auth' = [auth EXCEPT
                !.calls[k].pc = "done",
                !.profile = IF auth.mounted /\ profileData # NoProfile
                            THEN profileData ELSE @,
                !.loading = FALSE,
                !.profiles = profiles, !.companies = companies]

\* the listener given to onAuthStateChange is called with a session (of
\* sessionUser) or with none, up to its await
onAuthStateChange(sessionUser) ==
    /\ auth.mounted
    /\ auth.events < MaxAuthEvents
    /\ auth' = IF sessionUser # NoSessionUser
               THEN [auth EXCEPT !.events = @ + 1, !.session = sessionUser,
                                 !.user = sessionUser,
                                 !.calls = Append(@, [caller |-> "listener", pc |-> "select",
                                                      user |-> sessionUser, companyId |-> 0])]
               ELSE [auth EXCEPT !.events = @ + 1, !.session = NoSessionUser,
                                 !.user = NoSessionUser, !.profile = NoProfile,
                                 !.loading = FALSE]
    /\ UNCHANGED <<env, gw, user, upload, ext, storage, sent, page, review, commits, db>>

\* supabase.auth.getSession() settles in getSession
GetSessionSettle(k, ok, sessionUser) ==
    /\ k \in 1..Len(auth.calls) /\ auth.calls[k].pc = "getSession"
    /\ auth' = IF ~ok
               THEN [auth EXCEPT !.calls[k].pc = "done", !.loading = FALSE]
               ELSE IF ~auth.mounted
               THEN [auth EXCEPT !.calls[k].pc = "done"]
               ELSE IF sessionUser # NoSessionUser
               THEN [auth EXCEPT !.session = sessionUser, !.user = sessionUser,
                                 !.calls[k].pc = "select", !.calls[k].user = sessionUser]
               ELSE [auth EXCEPT !.session = NoSessionUser, !.user = NoSessionUser,
                                 !.calls[k].pc = "done", !.loading = FALSE]
    /\ UNCHANGED <<env, gw, user, upload, ext, storage, sent, page, review, commits, db>>

\* one await of fetchOrCreateProfile settles in call k: the select on
\* profiles, the insert into companies or the insert into profiles; ok says
\* whether the request went through (an insert of a second row with the
\* same profiles.id does not, whatever ok says)
fetchOrCreateProfile(k, ok) ==
    /\ k \in 1..Len(auth.calls)
    /\ LET call == auth.calls[k]
           existing == {row \in auth.profiles : row.id = call.user.id}
       IN  \/ /\ call.pc = "select"
              /\ IF ~ok
                 THEN ProfileReturned(k, NoProfile, auth.profiles, auth.companies)
                 ELSE IF existing # {}
                 THEN ProfileReturned(k, CHOOSE row \in existing : TRUE,
                                      auth.profiles, auth.companies)
                 ELSE auth' = [auth EXCEPT !.calls[k].pc =
                                  IF call.user.user_type = "organization"
                                     /\ call.user.company_name # ""
                                  THEN "company" ELSE "profile"]
           \/ /\ call.pc = "company"
              /\ IF ok
                 THEN LET id == GeneratedId(auth.companies)
                      IN  auth' = [auth EXCEPT
                                     !.companies = @ \cup {[id |-> id, email |-> call.user.id]},
                                     !.calls[k].companyId = id,
                                     !.calls[k].pc = "profile"]
                 ELSE auth' = [auth EXCEPT !.calls[k].pc = "profile"]
           \/ /\ call.pc = "profile"
              /\ IF ok /\ existing = {}
                 THEN LET newProfile == [id |-> call.user.id, company_id |-> call.companyId]
                      IN  ProfileReturned(k, newProfile,
                                          auth.profiles \cup {newProfile}, auth.companies)
                 ELSE ProfileReturned(k, NoProfile, auth.profiles, auth.companies)
    /\ UNCHANGED <<env, gw, user, upload, ext, storage, sent, page, review, commits, db>>

\* logout up to the await of supabase.auth.signOut()
LogoutClick ==
    /\ auth.mounted /\ ~auth.loggingOut
    /\ auth.logouts < MaxAuthEvents
    /\ auth' = [auth EXCEPT !.loading = TRUE, !.loggingOut = TRUE, !.logouts = @ + 1]
    /\ UNCHANGED <<env, gw, user, upload, ext, storage, sent, page, review, commits, db>>

\* signOut settles: the three setters unless it failed, then finally
LogoutSettle(ok) ==
    /\ auth.loggingOut
    /\ auth' = IF ok
               THEN [auth EXCEPT !.user = NoSessionUser, !.profile = NoProfile,
                                 !.session = NoSessionUser, !.loading = FALSE,
                                 !.loggingOut = FALSE]
               ELSE [auth EXCEPT !.loading = FALSE, !.loggingOut = FALSE]
    /\ UNCHANGED <<env, gw, user, upload, ext, storage, sent, page, review, commits, db>>

\* the cleanup of the effect: mounted = false, subscription.unsubscribe()
AuthUnmount ==
    /\ auth.mounted
    /\ auth' = [auth EXCEPT !.mounted = FALSE]
    /\ UNCHANGED <<env, gw, user, upload, ext, storage, sent, page, review, commits, db>>

(***************************************************************************)
(* Specifications.                                                         *)
(***************************************************************************)
\* the gateway alone, over every request body and upstream reply
InitGateway ==
    /\ env \in Envs
    /\ gw = GwIdle(0)
    /\ auth = AuthStart
    /\ user = NoUser
    /\ ClientStart

NextGateway ==
    \/ \E imageBase64 \in Images : GwRequest(imageBase64)
    \/ \E upstream \in Upstreams : GwUpstream(upstream)
    \/ GwReturn

SpecGateway == InitGateway /\ [][NextGateway]_vars

\* the page session up to the hand-over: intake, extraction, dismissal
Init ==
    /\ env \in Envs
    /\ gw = GwIdle(0)
    /\ auth = AuthStart
    /\ user \in Users \cup {NoUser}
    /\ ClientStart

Next ==
    \/ \E file \in Files : PickFile(file)
    \/ \E file \in Files : DropFile(file)
    \/ ProcessClick
    \/ \E i \in 1..MaxExtractions, ok \in BOOLEAN : UploadSettle(i, ok)
    \/ \E i \in 1..MaxExtractions, ok \in BOOLEAN : ConvertSettle(i, ok)
    \/ \E i \in 1..MaxExtractions, reached \in BOOLEAN, upstream \in ClientUpstreams :
          InvokeSettle(i, reached, upstream)
    \/ handleCancel

Spec == Init /\ [][Next]_vars

\* the page session from a hand-over on: review controls and commit, from
\* the state handleDataExtracted leaves for a record processWithAI hands over
NextCommit ==
    \/ handleEdit
    \/ handleSaveEdit
    \/ handleCancelEdit
    \/ handleCancel
    \/ SaveClickCard
    \/ SaveClickPage
    \/ \E c \in 1..MaxCommits, ok \in BOOLEAN : HeaderSettle(c, ok)
    \/ \E c \in 1..MaxCommits, ok \in BOOLEAN : RowsSettle(c, ok)
    \/ \E c \in 1..MaxCommits, ok \in BOOLEAN : LedgerSettle(c, ok)

InitCommit ==
    /\ env \in {e \in Envs : e.hasKey}
    /\ gw = GwIdle(0)
    /\ auth = AuthStart
    /\ user \in Users \cup {NoUser}
    /\ upload = UploadIdle
    /\ ext = <<>>
    /\ storage = {}
    /\ sent = {}
    /\ \E data \in HandedOverBy[env] :
          /\ page = [saving |-> FALSE, hasData |-> TRUE, extractedData |-> data]
          /\ review = Mounted(data)
    /\ commits = <<>>
    /\ db = [bank_statements |-> {}, bank_transactions |-> {}]

SpecCommit == InitCommit /\ [][NextCommit]_vars

\* the review card alone: edit mode and the draft operations, from the state
\* handleDataExtracted leaves for a record of handler 1
InitEdit ==
    /\ env = [variant |-> 1, hasKey |-> TRUE]
    /\ gw = GwIdle(0)
    /\ auth = AuthStart
    /\ user \in Users
    /\ upload = UploadIdle
    /\ ext = <<>>
    /\ storage = {}
    /\ sent = {}
    /\ \E data \in HandedOverBy[env] :
          /\ page = [saving |-> FALSE, hasData |-> TRUE, extractedData |-> data]
          /\ review = Mounted(data)
    /\ commits = <<>>
    /\ db = [bank_statements |-> {}, bank_transactions |-> {}]

NextEdit ==
    \/ handleEdit
    \/ handleSaveEdit
    \/ handleCancelEdit
    \/ \E field \in ScalarFields, text \in {ReplyText.n100} : InputChange(field, text)
    \/ \E field \in PeriodFields, text \in {ReplyText.date} : PeriodChange(field, text)
    \/ \E index \in RowIndices, field \in TxFields :
          \E text \in TextsFor(field) : TransactionChange(index, field, text)
    \/ AddTransaction
    \/ \E index \in RowIndices : RemoveTransaction(index)

SpecEdit == InitEdit /\ [][NextEdit]_vars

\* the review card with handlers that may run in pairs before a render
NextBatch ==
    \/ NextEdit
    \/ \E earlier \in {"addTransaction", "removeTransaction"},
            index \in RowIndices, field \in TxFields :
          \E text \in TextsFor(field) :
              TransactionChangeBeforeRender(earlier, index, field, text)

SpecBatch == InitEdit /\ [][NextBatch]_vars

(***************************************************************************)
(* The whole pipeline: the page session with the gateway behind            *)
(* functions.invoke, from the first file to the last write.                *)
(***************************************************************************)
\* the request of execution i reaches the handler
GatewayCalled(i) ==
    /\ i \in 1..Len(ext) /\ ext[i].pc = "invoke"
    /\ GwRequest(ext[i].imageBase64)

\* the handler's Response reaches execution i
GatewayAnswers(i) ==
    /\ i \in 1..Len(ext) /\ ext[i].pc = "invoke"
    /\ gw.pc = "done"
    /\ InvokeResult(i, TRUE, gw.response)
    /\ gw' = GwIdle(gw.served + 1)

\* functions.invoke fails without a Response: the request never arrived
InvokeLost(i) ==
    /\ i \in 1..Len(ext) /\ ext[i].pc = "invoke"
    /\ gw.pc = "idle"
    /\ InvokeResult(i, FALSE, NoResponse)
    /\ UNCHANGED gw

InitPipeline ==
    /\ env \in Envs
    /\ gw = GwIdle(0)
    /\ auth = AuthStart
    /\ user \in Users
    /\ ClientStart

NextPipeline ==
    \/ \E file \in {f \in Files : f.size < maxSize /\ ~InvalidFileType(f)} : PickFile(file)
    \/ \E file \in {f \in Files : f.size < maxSize /\ ~InvalidFileType(f)} : DropFile(file)
    \/ Len(ext) < MaxRuns /\ ProcessClick
    \/ \E i \in 1..Len(ext), ok \in BOOLEAN : UploadSettle(i, ok)
    \/ \E i \in 1..Len(ext), ok \in BOOLEAN : ConvertSettle(i, ok)
    \/ \E i \in 1..Len(ext) : GatewayCalled(i)
    \/ \E upstream \in ClientUpstreams : GwUpstream(upstream)
    \/ \E i \in 1..Len(ext) : GatewayAnswers(i)
    \/ \E i \in 1..Len(ext) : InvokeLost(i)
    \/ handleEdit
    \/ handleSaveEdit
    \/ handleCancelEdit
    \/ handleCancel
    \/ /\ review.last.n < MaxRuns
       /\ \/ \E field \in ScalarFields, text \in {ReplyText.n100} : InputChange(field, text)
          \/ \E field \in PeriodFields, text \in {ReplyText.date} : PeriodChange(field, text)
          \/ \E index \in RowIndices, field \in TxFields :
                \E text \in TextsFor(field) : TransactionChange(index, field, text)
          \/ AddTransaction
          \/ \E index \in RowIndices : RemoveTransaction(index)
    \/ Len(commits) < MaxRuns /\ SaveClickCard
    \/ Len(commits) < MaxRuns /\ SaveClickPage
    \/ \E c \in 1..Len(commits), ok \in BOOLEAN : HeaderSettle(c, ok)
    \/ \E c \in 1..Len(commits), ok \in BOOLEAN : RowsSettle(c, ok)
    \/ \E c \in 1..Len(commits), ok \in BOOLEAN : LedgerSettle(c, ok)

SpecPipeline == InitPipeline /\ [][NextPipeline]_vars

\* an await of processWithAI settles: the storage upload, the FileReader,
\* functions.invoke with the handler and its fetch behind it
ExtractionSettles ==
    \/ \E i \in 1..Len(ext), ok \in BOOLEAN : UploadSettle(i, ok)
    \/ \E i \in 1..Len(ext), ok \in BOOLEAN : ConvertSettle(i, ok)
    \/ \E i \in 1..Len(ext) : InvokeLost(i)
    \/ \E i \in 1..Len(ext) : GatewayCalled(i)
    \/ \E upstream \in ClientUpstreams : GwUpstream(upstream)
    \/ \E i \in 1..Len(ext) : GatewayAnswers(i)

\* an await of handleSaveTransactions settles: the two inserts, a ledger call
CommitSettles ==
    \/ \E c \in 1..Len(commits), ok \in BOOLEAN : HeaderSettle(c, ok)
    \/ \E c \in 1..Len(commits), ok \in BOOLEAN : RowsSettle(c, ok)
    \/ \E c \in 1..Len(commits), ok \in BOOLEAN : LedgerSettle(c, ok)

\* the two asynchronous handlers from click to end, the statement saved as
\* it was extracted
NextSettling ==
    \/ \E file \in {f \in Files : f.size < maxSize /\ ~InvalidFileType(f)} : PickFile(file)
    \/ Len(ext) < MaxRuns /\ ProcessClick
    \/ ExtractionSettles
    \/ Len(commits) < MaxRuns /\ SaveClickCard
    \/ Len(commits) < MaxRuns /\ SaveClickPage
    \/ CommitSettles

\* every awaited network call settles, one way or the other: a promise
\* that is pending does not stay pending for ever
SpecSettling ==
    InitPipeline /\ [][NextSettling]_vars
        /\ WF_vars(ExtractionSettles) /\ WF_vars(CommitSettles)

\* the provider alone, over every order of auth events, getSession, logout
\* and the settlements of the calls in flight
InitAuth ==
    /\ env = [variant |-> 1, hasKey |-> TRUE]
    /\ gw = GwIdle(0)
    /\ auth = AuthStart
    /\ user = NoUser
    /\ ClientStart

NextAuth ==
    \/ \E sessionUser \in AuthUsers \cup {NoSessionUser} : onAuthStateChange(sessionUser)
    \/ \E k \in 1..Len(auth.calls), ok \in BOOLEAN,
            sessionUser \in AuthUsers \cup {NoSessionUser} :
          GetSessionSettle(k, ok, sessionUser)
    \/ \E k \in 1..Len(auth.calls), ok \in BOOLEAN : fetchOrCreateProfile(k, ok)
    \/ LogoutClick
    \/ \E ok \in BOOLEAN : LogoutSettle(ok)
    \/ AuthUnmount

SpecAuth == InitAuth /\ [][NextAuth]_vars

(***************************************************************************)
(* Properties of the Extraction Gateway (SpecGateway).                     *)
(***************************************************************************)
\* the handler holds a success Response for the request in progress
GwSucceeded == gw.pc = "done" /\ gw.response.success

\* the rows of the Response held
GwRows == gw.response.extractedData.transactions

\* C1: in every row of a success response of the gateway, debitAmount > 0
\* implies creditAmount = 0 and creditAmount > 0 implies debitAmount = 0,
\* whatever the model replied.  Handler 2 (lines 408-416) parses the two
\* amounts and never zeroes one of them: the statement fails there.
C1_DebitCreditExclusive ==
    GwSucceeded =>
        \A i \in 1..Len(GwRows) :
            /\ GwRows[i].debitAmount.n > 0 => GwRows[i].creditAmount.n = 0
            /\ GwRows[i].creditAmount.n > 0 => GwRows[i].debitAmount.n = 0

\* C2: after the normalization of handler 1 (lines 174-193) both amounts of
\* every row are non-negative and at most one of them is non-zero.  The step
\* "Ensure only one of debit or credit is non-zero" tests > 0 only, so a row
\* with two negative amounts keeps both: the statement fails.
C2_NonNegativeOneSided ==
    (GwSucceeded /\ env.variant = 1) =>
        \A i \in 1..Len(GwRows) :
            /\ GwRows[i].debitAmount.n >= 0
            /\ GwRows[i].creditAmount.n >= 0
            /\ GwRows[i].debitAmount.n = 0 \/ GwRows[i].creditAmount.n = 0

\* the record carries the marker the caller looks for
SampleTagged(data) ==
    /\ Includes(JSString(data.accountNumber), StrSAMPLE)
    /\ Len(data.transactions) > 0
    /\ Includes(JSString(data.transactions[1].description), StrSAMPLE)

\* C8: a request without a document (imageBase64 absent or empty) is answered
\* without a call of the external model, by a success response whose
\* accountNumber and first description are tagged SAMPLE.  The sample record
\* of handler 2 (lines 343-399) carries "XXXX1234" and "HP PETROL PUMP
\* MUMBAI", with no tag: the statement fails there.
C8_NoDocumentTaggedSample ==
    (gw.pc = "done" /\ ~Truthy(gw.image)) =>
        /\ gw.calls = 0
        /\ gw.response.success
        /\ SampleTagged(gw.response.extractedData)

\* C15: after the normalization of handler 1 every row's category is one of
\* the 26 values of ledger_category, a value outside the set being replaced
\* by 'other'.  Line 182 is transaction.category || 'other': it replaces a
\* missing category only, and a reply with "category": "groceries" keeps it:
\* the statement fails.
C15_CategoryInClosedSet ==
    (GwSucceeded /\ env.variant = 1) =>
        \A i \in 1..Len(GwRows) :
            /\ GwRows[i].category.t = "str"
            /\ GwRows[i].category.s \in ledger_category

\* C16: every success response of handler 1 has a non-empty accountNumber,
\* a non-empty bankName and a statementPeriod with a from and a to date,
\* whatever the model returned.  Lines 201-206 default statementPeriod only
\* when it is missing: an object {"from": "2024-01-05"} is a truthy value
\* and goes out without its to date: the statement fails.
C16_TopLevelDefaulted ==
    (GwSucceeded /\ env.variant = 1) =>
        LET data == gw.response.extractedData
        IN  /\ Truthy(data.accountNumber)
            /\ Truthy(data.bankName)
            /\ data.statementPeriod.kind = "object"
            /\ Truthy(data.statementPeriod.from)
            /\ Truthy(data.statementPeriod.to)

RECURSIVE MatchingClose(_, _, _)
\* the position of the "}" that closes the brace opened before position i,
\* depth braces being open there; 0 when the text ends first
MatchingClose(text, i, depth) ==
    IF i > Len(text) THEN 0
    ELSE IF text[i].k = "{" THEN MatchingClose(text, i + 1, depth + 1)
    ELSE IF text[i].k = "}"
         THEN IF depth = 1 THEN i ELSE MatchingClose(text, i + 1, depth - 1)
    ELSE MatchingClose(text, i + 1, depth)

\* the first balanced "{...}" of the text, <<>> when it has none
FirstBalanced(text) ==
    LET opens == {i \in 1..Len(text) : text[i].k = "{"}
        first == CHOOSE i \in opens : \A j \in opens : i <= j
    IN  IF opens = {} \/ MatchingClose(text, first + 1, 1) = 0 THEN <<>>
        ELSE SubSeq(text, first, MatchingClose(text, first + 1, 1))

\* C17: the candidate the gateway takes from the generated text is its first
\* balanced "{...}", so a text whose first object parses is answered with
\* that object's data.  The pattern /\{[\s\S]*\}/ is greedy: it runs from the
\* first "{" to the last "}" of the text, so with a "}" in the prose behind
\* the object, or a second object, the candidate is not the first object,
\* JSON.parse throws and the request fails: the statement fails.
C17_FirstBalancedCandidate ==
    (gw.pc = "done" /\ gw.calls = 1 /\ gw.upstream.ok /\ gw.upstream.hasText) =>
        LET text == gw.upstream.text
        IN  /\ JsonMatch(text) = FirstBalanced(text)
            /\ JsonParses(FirstBalanced(text)) =>
                  gw.response = Finish(env.variant, JsonParse(FirstBalanced(text)))

\* the text holds a "{" with a "}" somewhere behind it
HasBraces(text) ==
    \E i, j \in 1..Len(text) : i < j /\ text[i].k = "{" /\ text[j].k = "}"

GwExtracted ==
    IF gw.upstream.ok THEN JsonParse(JsonMatch(gw.upstream.text))
    ELSE SampleData(env.variant)

\* its rows, when transactions is an array
GwRawRows ==
    IF GwExtracted.transactions.kind = "array" THEN GwExtracted.transactions.rows
    ELSE <<>>

\* the number (in hundredths) the rule of C23 gives a raw amount: 0 for a
\* missing, null, NaN, empty or non-numeric value, its value for a number and
\* for a string that spells a number
AmountByRule(v) ==
    CASE v.t = "num" -> v.n
      [] v.t = "str" /\ v.s = <<"0">> -> 0
      [] v.t = "str" /\ v.s = <<"1", "0", "0">> -> 10000
      [] v.t = "str" /\ v.s = <<"9", "0", "0">> -> 90000
      [] v.t = "str" /\ v.s = <<"-", "5">> -> -500
      [] OTHER -> 0

C28_RowsKeptInOrder ==
    (GwSucceeded /\ env.variant = 1) =>
        /\ Len(GwRows) = Len(GwRawRows)
        /\ \A i \in 1..Len(GwRawRows) :
              /\ GwRows[i] = CleanTransaction1(GwRawRows[i], i - 1)
              /\ Truthy(GwRawRows[i].date) => GwRows[i].date = GwRawRows[i].date
              /\ Truthy(GwRawRows[i].category) =>
                    GwRows[i].category = GwRawRows[i].category
              /\ ~Truthy(GwRawRows[i].description) =>
                    GwRows[i].description =
                        Str(<<"T", "r", "a", "n", "s", "a", "c", "t", "i", "o", "n", " ">>
                            \o NatStr(i))
        /\ GwExtracted.transactions.kind # "array" =>
              gw.response.status = 200 /\ GwRows = <<>>

\* C28, its case: handler 1 answered a reply of two different rows, the
\* first of them without date and description
C28_Witness ==
    /\ GwSucceeded /\ env.variant = 1 /\ gw.upstream.ok
    /\ Len(GwRawRows) = 2
    /\ GwRawRows[1] # GwRawRows[2]
    /\ ~Truthy(GwRawRows[1].date) /\ ~Truthy(GwRawRows[1].description)
    /\ Truthy(GwRawRows[2].date)
    /\ Len(GwRows) = 2

\* C30: the map callback of handler 1, applied at the same index on the same
\* day to a row it produced, gives that row again, whatever the raw row
\* was: the strings and numbers it writes are values it leaves alone.
C30_NormalizationIdempotent ==
    (GwSucceeded /\ env.variant = 1) =>
        \A i \in 1..Len(GwRows) :
            CleanTransaction1(GwRows[i], i - 1) = GwRows[i]

\* C30, its case: handler 1 answered a reply with a row it had to change in
\* its date, its description, both amounts and its reference, and with a
\* row whose two negative amounts it kept
C30_Witness ==
    /\ GwSucceeded /\ env.variant = 1 /\ gw.upstream.ok
    /\ \E i \in 1..Len(GwRawRows) :
          /\ GwRows[i].date # GwRawRows[i].date
          /\ GwRows[i].description # GwRawRows[i].description
          /\ GwRows[i].creditAmount # GwRawRows[i].creditAmount
          /\ GwRows[i].referenceNumber # GwRawRows[i].referenceNumber
          /\ GwRows[i].debitAmount.n > 0
    /\ \E i \in 1..Len(GwRawRows) :
          GwRows[i].debitAmount.n < 0 /\ GwRows[i].creditAmount.n < 0

(***************************************************************************)
(* Properties of intake and extraction (Spec).                             *)
(***************************************************************************)
\* the file passes the two checks of intake validation
Accepted(file) == file.size <= maxSize /\ file.type \in allowedTypes

\* C3: whatever files are picked or dropped and whenever "Process with AI"
\* is clicked, every file uploaded to storage, every file whose payload is
\* sent to the gateway and every file a processWithAI execution holds
\* passed intake validation, and so does the selectedFile.
C3_RejectedNeverSent ==
    /\ \A file \in storage \cup sent : Accepted(file)
    /\ \A i \in 1..Len(ext) : ext[i].file # NoFile /\ Accepted(ext[i].file)
    /\ upload.selectedFile # NoFile => Accepted(upload.selectedFile)

\* C3, its case: a file was rejected for its type, and the payload of an
\* accepted file has gone to the gateway
C3_Witness ==
    /\ upload.toast = "Invalid file type"
    /\ sent # {}
    /\ storage # {}

\* C12: handleFileSelect accepts the file it is given exactly when its size
\* is at most 10 MiB (the cap itself included) and its MIME type is JPEG
\* (under either spelling), PNG or PDF.  An accepted file becomes the
\* selectedFile and stays so until an extraction succeeds; a rejected one
\* shows a notification and is not the selectedFile.  handleFileSelect has
\* no throw: it returns for every file.
C12_IntakeAcceptsIff ==
    upload.offered # NoFile =>
        LET file == upload.offered
            fits == /\ file.size <= 10 * 1024 * 1024
                    /\ file.type \in {"image/jpeg", "image/jpg", "image/png",
                                       "application/pdf"}
        IN  /\ fits <=> upload.toast = ""
            /\ fits => \/ upload.selectedFile = file
                       \/ \E i \in 1..Len(ext) : ext[i].extracted
            /\ ~fits => /\ upload.selectedFile # file
                        /\ upload.toast \in {"File too large", "Invalid file type"}

\* C12, its case: a file of exactly 10 MiB was offered and is selected
C12_Witness ==
    /\ upload.offered.size = 10 * 1024 * 1024
    /\ upload.selectedFile = upload.offered
    /\ upload.toast = ""

\* C5: at most one processWithAI execution is between its start and its
\* settlement, under every interleaving of selections, drops and clicks.
C5_OneExtractionInFlight ==
    Cardinality({i \in 1..Len(ext) : ExtInFlight(i)}) <= 1

\* C5, its case: an extraction is in flight, the user has dropped another
\* file meanwhile and a further extraction could still be started
C5_Witness ==
    /\ Len(ext) < MaxExtractions
    /\ \E i \in 1..Len(ext) :
          /\ ExtInFlight(i)
          /\ upload.selectedFile # NoFile
          /\ upload.selectedFile # ext[i].file

\* C9: a record carrying the sample markers is never handed to the
\* Review/Edit Buffer.  processWithAI computes hasRealData and then calls
\* onDataExtracted whatever it found (line 139); a zero-byte PNG passes
\* intake validation, its payload is empty, handler 1 answers with its
\* sample record and the page shows it for commit: the statement fails.
C9_SampleNeverHandedOver ==
    page.hasData =>
        /\ ~Includes(JSString(page.extractedData.accountNumber), StrSAMPLE)
        /\ \A i \in 1..Len(page.extractedData.transactions) :
              ~Includes(JSString(page.extractedData.transactions[i].description),
                        StrSAMPLE)

(***************************************************************************)
(* Properties of the Persistence Writer (SpecCommit).                      *)
(***************************************************************************)
\* C4: at most one handleSaveTransactions execution is between its start
\* and its settlement, whichever save control is clicked.  The page-level
\* button is disabled while saving; the card's "Save Transactions" button
\* (StatementUpload.tsx 405-408) is not, and handleSaveTransactions does not
\* test saving: a click on it while a commit is in flight starts a second
\* commit of the same buffer, and the statement fails.
C4_OneCommitInFlight ==
    Cardinality({c \in 1..Len(commits) : CommitInFlight(c)}) <= 1

\* the bank_statements rows commit c wrote
HeadersOf(c) == {r \in db.bank_statements : r.id = commits[c].statementId}

\* the bank_transactions rows that carry the header id of commit c
RowsOf(c) == {r \in db.bank_transactions : r.row.statement_id = commits[c].statementId}

\* the rows a commit of commits[c].extractedData has to write, in order
RowsDue(c) ==
    LET transactions == commits[c].extractedData.transactions
    IN  {[seq |-> i,
          row |-> [statement_id |-> commits[c].statementId,
                   user_id |-> commits[c].user,
                   transaction_date |-> transactions[i].date,
                   description |-> transactions[i].description,
                   debit_amount |-> transactions[i].debitAmount,
                   credit_amount |-> transactions[i].creditAmount,
                   balance |-> transactions[i].balance,
                   reference_number |-> transactions[i].referenceNumber,
                   category |-> transactions[i].category]] :
            i \in 1..Len(transactions)}

\* the ledger derivations commit c has invoked are those of its first k rows
InvokedUpTo(c, k) ==
    /\ Len(commits[c].invoked) = k
    /\ k <= Len(commits[c].extractedData.transactions)
    /\ \A i \in 1..k :
          commits[c].invoked[i] =
              [transaction |-> commits[c].extractedData.transactions[i],
               userId |-> commits[c].user]

\* commit c ended in its catch block
CommitFailed(c) == commits[c].pc = "done" /\ commits[c].failedAt # ""

\* commit c ran to the end of its try block
CommitSucceeded(c) == commits[c].pc = "done" /\ commits[c].failedAt = ""

\* C6: a commit that failed shows exactly one error notification and stops
\* writing, and what it wrote stays.  Failed at the header insert: no header
\* row, no transaction row, no ledger derivation.  Failed at the bulk insert:
\* the header row stays, no transaction row, no ledger derivation.  Failed at
\* the derivation of row k: the header and all transaction rows stay and
\* exactly the derivations of rows 1..k were invoked.
C6_FailureAbortsAndKeeps ==
    \A c \in 1..Len(commits) :
        CommitFailed(c) =>
            /\ commits[c].toasts = 1
            /\ commits[c].toast = "Error saving bank statement"
            /\ commits[c].failedAt = "header" =>
                  /\ commits[c].statementId = 0
                  /\ HeadersOf(c) = {}
                  /\ RowsOf(c) = {}
                  /\ commits[c].invoked = <<>>
            /\ commits[c].failedAt = "rows" =>
                  /\ Cardinality(HeadersOf(c)) = 1
                  /\ RowsOf(c) = {}
                  /\ commits[c].invoked = <<>>
            /\ commits[c].failedAt = "ledger" =>
                  /\ Cardinality(HeadersOf(c)) = 1
                  /\ RowsOf(c) = RowsDue(c)
                  /\ Len(commits[c].invoked) >= 1
                  /\ InvokedUpTo(c, Len(commits[c].invoked))

\* C6, its case: one commit failed at its bulk insert and another at the
\* derivation of a row that is not the last, both after their header insert
C6_Witness ==
    /\ \E c \in 1..Len(commits) : CommitFailed(c) /\ commits[c].failedAt = "rows"
    /\ \E c \in 1..Len(commits) :
          /\ CommitFailed(c) /\ commits[c].failedAt = "ledger"
          /\ Len(commits[c].invoked) < Len(commits[c].extractedData.transactions)

\* C7: a commit that succeeded for a buffer of N rows has written exactly
\* one header row (processed, owned by the current user) and exactly the N
\* rows of the buffer, in buffer order, each with the header's id and the
\* owner, and has invoked the ledger derivation once per row in buffer order
\* with the owner.  At every moment of a commit the transaction rows are
\* there only after the header, and derivations only after the rows.
C7_SuccessWritesAll ==
    \A c \in 1..Len(commits) :
        /\ CommitSucceeded(c) =>
              /\ commits[c].user = user
              /\ HeadersOf(c) =
                    {[id |-> commits[c].statementId, user_id |-> user, processed |-> TRUE]}
              /\ RowsOf(c) = RowsDue(c)
              /\ InvokedUpTo(c, Len(commits[c].extractedData.transactions))
              /\ commits[c].toasts = 1
        /\ commits[c].pc = "header" =>
              commits[c].statementId = 0 /\ commits[c].invoked = <<>>
        /\ commits[c].pc = "rows" =>
              /\ Cardinality(HeadersOf(c)) = 1
              /\ RowsOf(c) = {}
              /\ commits[c].invoked = <<>>
        /\ commits[c].pc = "ledger" =>
              /\ Cardinality(HeadersOf(c)) = 1
              /\ RowsOf(c) = RowsDue(c)

\* C7, its case: a commit of a buffer of two rows or more has succeeded
C7_Witness ==
    \E c \in 1..Len(commits) :
        /\ CommitSucceeded(c)
        /\ Len(commits[c].extractedData.transactions) >= 2
        /\ Len(commits[c].invoked) = Len(commits[c].extractedData.transactions)

\* C24: when a commit settles with success the page's statement is
\* dropped (extractedData null, the review card gone); when it settles with
\* a failure, at whichever await, the statement and the review card are as
\* they were.  Every commit the user starts, a retry after a failure
\* included, starts at the header insert with nothing written, takes the
\* statement the page holds, and its header insert adds a new
\* bank_statements row with an id no row had.
C24_DiscardOnSuccessKeepOnFailure ==
    [][/\ \A c \in 1..Len(commits) :
             /\ (CommitInFlight(c) /\ commits'[c].pc = "done"
                     /\ commits'[c].failedAt = "") =>
                   /\ ~page'.hasData
                   /\ page'.extractedData = NoData
                   /\ review' = Unmounted
             /\ (CommitInFlight(c) /\ commits'[c].pc = "done"
                     /\ commits'[c].failedAt # "") =>
                   /\ page'.hasData = page.hasData
                   /\ page'.extractedData = page.extractedData
                   /\ review' = review
             /\ (commits[c].pc = "header" /\ commits'[c].pc = "rows") =>
                   /\ \A r \in db.bank_statements : r.id # commits'[c].statementId
                   /\ \E r \in db'.bank_statements : r.id = commits'[c].statementId
                   /\ Cardinality(db'.bank_statements) =
                          Cardinality(db.bank_statements) + 1
       /\ Len(commits') = Len(commits) + 1 =>
             LET new == commits'[Len(commits')]
             IN  /\ new.pc = "header" /\ new.headerInserts = 1
                 /\ new.rowInserts = 0 /\ new.invoked = <<>>
                 /\ new.statementId = 0
                 /\ new.extractedData = page.extractedData]_vars

\* C24, its case: a commit failed after its header insert, the page kept
\* the statement, the user saved again and the second commit, of the same
\* statement, has inserted a header of its own
C24_Witness ==
    /\ Len(commits) = 2
    /\ CommitFailed(1) /\ commits[1].failedAt \in {"rows", "ledger"}
    /\ commits[2].pc \in {"rows", "ledger"}
    /\ commits[2].extractedData = commits[1].extractedData
    /\ commits[2].statementId # commits[1].statementId
    /\ page.hasData /\ page.extractedData = commits[1].extractedData
    /\ Cardinality(db.bank_statements) = 2

(***************************************************************************)
(* Properties of the Review/Edit Buffer (SpecEdit).                        *)
(***************************************************************************)
\* C10: after handleTransactionChange(i, field, v) on a draft of n rows,
\* 0 <= i < n, field of row i reads v, the other fields of row i and every
\* other row are as before, there are still n rows, and accountNumber,
\* bankName, statementPeriod, openingBalance and closingBalance are as before.
C10_TransactionChangeRoundTrip ==
    review.last.op = "handleTransactionChange" =>
        LET before == review.last.before
            after == review.editData
            i == review.last.index + 1
        IN  /\ i \in 1..Len(before.transactions)
            /\ Len(after.transactions) = Len(before.transactions)
            /\ after.transactions[i][review.last.field] = review.last.value
            /\ \A f \in TxFields \ {review.last.field} :
                  after.transactions[i][f] = before.transactions[i][f]
            /\ \A j \in 1..Len(before.transactions) :
                  j # i => after.transactions[j] = before.transactions[j]
            /\ after.accountNumber = before.accountNumber
            /\ after.bankName = before.bankName
            /\ after.statementPeriod = before.statementPeriod
            /\ after.openingBalance = before.openingBalance
            /\ after.closingBalance = before.closingBalance

\* C10, its case: a field of the second of several rows was given a value
\* it did not have, and the rows differ in that field afterwards
C10_Witness ==
    /\ review.last.op = "handleTransactionChange"
    /\ review.last.index = 1
    /\ Len(review.last.before.transactions) >= 2
    /\ review.last.before.transactions[2][review.last.field] # review.last.value
    /\ review.editData.transactions[1][review.last.field] # review.last.value

\* C11: after removeTransaction(i) on a draft of n rows, 0 <= i < n, the
\* draft has n - 1 rows, the rows before i are where they were, every row
\* j > i sits at j - 1, and the statement-level fields are as before.
\* (Indices here are those of the sequences: row i of the source is i + 1.)
C11_RemoveShiftsDown ==
    review.last.op = "removeTransaction" =>
        LET before == review.last.before
            after == review.editData
            i == review.last.index + 1
            n == Len(before.transactions)
        IN  /\ i \in 1..n
            /\ Len(after.transactions) = n - 1
            /\ \A j \in 1..(i - 1) : after.transactions[j] = before.transactions[j]
            /\ \A j \in (i + 1)..n : after.transactions[j - 1] = before.transactions[j]
            /\ after.accountNumber = before.accountNumber
            /\ after.bankName = before.bankName
            /\ after.statementPeriod = before.statementPeriod
            /\ after.openingBalance = before.openingBalance
            /\ after.closingBalance = before.closingBalance

\* C11, its case: the middle one of three rows that differ was removed
C11_Witness ==
    /\ review.last.op = "removeTransaction"
    /\ review.last.index = 1
    /\ Len(review.last.before.transactions) = 3
    /\ review.last.before.transactions[1] # review.last.before.transactions[2]
    /\ review.last.before.transactions[2] # review.last.before.transactions[3]

\* C22: after addTransaction on a draft of n rows there are n + 1 rows; rows
\* 1..n are as before, at their positions; the new last row has the date of
\* today (the day new Date().toISOString() gives), the number 0 for
\* debitAmount, creditAmount and balance, '' for description and
\* referenceNumber and 'other' for category; accountNumber, bankName,
\* statementPeriod, openingBalance and closingBalance are as before.
C22_AddAppendsBlank ==
    review.last.op = "addTransaction" =>
        LET before == review.last.before
            after == review.editData
            n == Len(before.transactions)
        IN  /\ Len(after.transactions) = n + 1
            /\ \A j \in 1..n : after.transactions[j] = before.transactions[j]
            /\ after.transactions[n + 1].date = Str(Today)
            /\ after.transactions[n + 1].description = Str(<<>>)
            /\ after.transactions[n + 1].debitAmount = Num(0)
            /\ after.transactions[n + 1].creditAmount = Num(0)
            /\ after.transactions[n + 1].balance = Num(0)
            /\ after.transactions[n + 1].referenceNumber = Str(<<>>)
            /\ after.transactions[n + 1].category = Str(<<"o", "t", "h", "e", "r">>)
            /\ DOMAIN after.transactions[n + 1] = TxFields
            /\ after.accountNumber = before.accountNumber
            /\ after.bankName = before.bankName
            /\ after.statementPeriod = before.statementPeriod
            /\ after.openingBalance = before.openingBalance
            /\ after.closingBalance = before.closingBalance

\* C22, its case: a row was added to a draft of two rows or more, none of
\* them blank
C22_Witness ==
    /\ review.last.op = "addTransaction"
    /\ Len(review.last.before.transactions) >= 2
    /\ \A j \in 1..Len(review.last.before.transactions) :
          review.last.before.transactions[j].description # Str(<<>>)
    /\ Len(review.editData.transactions) = Len(review.last.before.transactions) + 1

\* C26: a handleTransactionChange that follows an addTransaction or a
\* removeTransaction gives the draft the two give one after the other, also
\* when it is dispatched before the render that follows the first: as many
\* rows as the state it was applied to, the rows other than its own as
\* they were there.  handleTransactionChange copies editData.transactions
\* of its render (line 356) and its updater puts that copy in place of
\* prev.transactions (line 358): the row just added is gone, the row just
\* removed is back, and the statement fails.
C26_OperationsCompose ==
    review.last.op = "handleTransactionChange" =>
        LET before == review.last.before
            after == review.editData
            i == review.last.index + 1
        IN  /\ Len(after.transactions) = Len(before.transactions)
            /\ \A j \in 1..Len(before.transactions) :
                  j # i => after.transactions[j] = before.transactions[j]

\* C25: the draft operations change editData only and leave extractedData
\* alone; extractedData changes on "Save Changes" only, to the draft of that
\* moment; "Cancel" leaves extractedData alone and makes the draft equal to
\* it; "Edit" makes the draft equal to extractedData whatever the draft was.
C25_DraftIsolated ==
    [][/\ review'.last.n = review.last.n + 1 =>
             page' = page /\ review'.isEditing
       /\ page'.extractedData # page.extractedData =>
             /\ review.isEditing /\ ~review'.isEditing
             /\ page'.extractedData = review.editData
       /\ handleSaveEdit =>
             /\ page'.extractedData = review.editData
             /\ review'.editData = review.editData
             /\ ~review'.isEditing
       /\ handleCancelEdit =>
             /\ page' = page
             /\ review'.editData = page.extractedData
             /\ ~review'.isEditing
       /\ handleEdit =>
             /\ page' = page
             /\ review'.editData = page.extractedData
             /\ review'.isEditing]_vars

\* C25, its case: the draft was changed in edit mode and "Cancel" has put
\* it back to the statement the page holds
C25_Witness ==
    /\ ~review.isEditing
    /\ review.last.n >= 1 /\ review.last.op = "none"
    /\ review.editData = page.extractedData

(***************************************************************************)
(* Properties of the whole pipeline (SpecPipeline).                        *)
(***************************************************************************)
\* the requests the handler has received so far
GwRequests == gw.served + (IF gw.pc = "idle" THEN 0 ELSE 1)

\* C14: nothing in the pipeline is retried.  A processWithAI execution makes
\* at most one storage upload and at most one gateway invocation, and none
\* after the step that failed; the handler receives no more requests than
\* executions invoked it and makes at most one upstream call per request; a
\* commit issues the header insert and the bulk insert at most once each and
\* the ledger derivation of each row at most once, in buffer order, and after
\* a failed insert it issues nothing further.
C14_NoAutomaticRetry ==
    /\ \A i \in 1..Len(ext) :
          /\ ext[i].uploads <= 1
          /\ ext[i].invokes <= 1
          /\ ext[i].toasts <= 1
          /\ (ext[i].file \notin storage \/ ext[i].file \notin sent) => ext[i].invokes = 0
    /\ GwRequests <= Cardinality({i \in 1..Len(ext) : ext[i].invokes = 1})
    /\ gw.calls <= 1
    /\ \A c \in 1..Len(commits) :
          /\ commits[c].headerInserts <= 1
          /\ commits[c].rowInserts <= 1
          /\ InvokedUpTo(c, Len(commits[c].invoked))
          /\ commits[c].failedAt = "header" =>
                commits[c].rowInserts = 0 /\ commits[c].invoked = <<>>
          /\ commits[c].failedAt = "rows" => commits[c].invoked = <<>>

\* C14, its case: the one upstream call of the one gateway request has
\* failed, and with it the execution that invoked the gateway after its one
\* upload
C14_Witness ==
    /\ env.hasKey /\ gw.served = 1
    /\ \E i \in 1..Len(ext) :
          /\ ext[i].pc = "done" /\ ~ext[i].extracted
          /\ Truthy(ext[i].imageBase64)
          /\ ext[i].uploads = 1 /\ ext[i].invokes = 1

\* C18: every draft operation immediately produces a new committed snapshot
\* of the buffered statement, so a commit issued at any time after an
\* operation persists the operation's effect.  The operations write editData
\* only; the page-level Save button (BankStatementUpload.tsx 263-280) is
\* there in edit mode too and handleSaveTransactions reads extractedData, so
\* a commit issued between an operation and "Save Changes" persists the
\* statement without the operation: the statement fails.
C18_EditCommittedAtOnce ==
    [][(Len(commits') = Len(commits) + 1 /\ review.last.op # "none") =>
            commits'[Len(commits')].extractedData = review.editData]_vars

\* C18, as the code has it: a draft operation immediately produces a new
\* draft (editData) and leaves the buffered statement and the commits as they
\* were; handleSaveEdit makes the draft the buffered statement; a commit
\* persists the buffered statement of the moment it is issued.  So a commit
\* persists an operation's effect when handleSaveEdit came between the two.
C18_DraftThenSaveEdit ==
    [][/\ review'.last.n = review.last.n + 1 =>
             /\ review'.last.before = review.editData
             /\ page' = page
             /\ commits' = commits
       /\ (/\ page.hasData /\ review.isEditing
           /\ page'.hasData /\ ~review'.isEditing
           /\ review'.last.op # "none") =>
             page'.extractedData = review.editData
       /\ Len(commits') = Len(commits) + 1 =>
             commits'[Len(commits')].extractedData = page.extractedData]_vars

\* C18, its case: an operation changed the draft, "Save Changes" followed
\* and a commit issued after it holds the statement with the change
C18_Witness ==
    /\ review.last.op # "none" /\ ~review.isEditing
    /\ review.last.before # review.editData
    /\ \E c \in 1..Len(commits) :
          /\ CommitInFlight(c)
          /\ commits[c].extractedData = review.editData

\* what the user can do on the page
UserActs ==
    \/ \E file \in Files : PickFile(file) \/ DropFile(file)
    \/ ProcessClick
    \/ handleEdit \/ handleSaveEdit \/ handleCancelEdit \/ handleCancel
    \/ \E field \in ScalarFields, text \in {ReplyText.n100} : InputChange(field, text)
    \/ \E field \in PeriodFields, text \in {ReplyText.date} : PeriodChange(field, text)
    \/ \E index \in RowIndices, field \in TxFields :
          \E text \in TextsFor(field) : TransactionChange(index, field, text)
    \/ AddTransaction
    \/ \E index \in RowIndices : RemoveTransaction(index)
    \/ SaveClickCard \/ SaveClickPage

\* a processWithAI execution settles after its gateway invocation
ExtractionArrives == \E i \in 1..Len(ext) : GatewayAnswers(i) \/ InvokeLost(i)

GatewayFailed ==
    \/ gw.pc # "done"
    \/ gw.response.status # 200
    \/ ~gw.response.success
    \/ ~gw.response.hasData

\* C20: a processWithAI execution only ever moves between its awaits and
\* its end: it never rejects.  When the storage upload, the conversion or
\* the gateway invocation fails, or the Response is no success or carries no
\* extractedData, the execution ends there with exactly one notification,
\* "Error processing bank statement", the progress flags are reset and
\* onDataExtracted is not called: the page's statement and the review card
\* are as before.  A handleSaveTransactions execution never rejects either:
\* a failed one ends with exactly one notification and saving reset.
C20_FailuresCaught ==
    [][/\ \A i \in 1..Len(ext) :
             /\ i \in 1..Len(ext')
             /\ ext'[i].pc \in {"upload", "convert", "invoke", "done"}
             /\ (ext[i].pc = "invoke" /\ ext'[i].pc = "done" /\ GatewayFailed) =>
                   ~ext'[i].extracted
             /\ (ExtInFlight(i) /\ ext'[i].pc = "done" /\ ~ext'[i].extracted) =>
                   /\ ext'[i].toasts = 1
                   /\ ext'[i].toast = "Error processing bank statement"
                   /\ page' = page
                   /\ review' = review
                   /\ ~upload'.uploading /\ ~upload'.processing
                   /\ upload'.processingStep = ""
             /\ ~ExtInFlight(i) => ext'[i] = ext[i]
       /\ \A c \in 1..Len(commits) :
             /\ c \in 1..Len(commits')
             /\ commits'[c].pc \in {"header", "rows", "ledger", "done"}
             /\ (CommitInFlight(c) /\ commits'[c].pc = "done"
                     /\ commits'[c].failedAt # "") =>
                   /\ commits'[c].toasts = 1
                   /\ commits'[c].toast = "Error saving bank statement"
                   /\ ~page'.saving
             /\ ~CommitInFlight(c) => commits'[c] = commits[c]]_vars

\* C20, its case: the handler answered the invocation of an execution with
\* a failure, after the upload went through, and the execution has ended
\* with its one error notification and an empty page
C20_Witness ==
    /\ gw.served = 1 /\ storage # {}
    /\ ~page.hasData /\ review = Unmounted
    /\ \E i \in 1..Len(ext) :
          /\ ext[i].pc = "done" /\ ~ext[i].extracted
          /\ ext[i].toast = "Error processing bank statement"
          /\ ext[i].toasts = 1

(***************************************************************************)
(* Properties of the AuthProvider (SpecAuth).                              *)
(***************************************************************************)
\* C21: whatever fetchOrCreateProfile calls run for a user, the two the
\* provider starts on load included, the store ends up with at most one
\* profiles row and at most one companies row for that user.  The primary
\* key of profiles refuses the second profile; nothing refuses the second
\* company: two calls for an organization user that both select before
\* either inserts each insert a company, and the statement fails.
C21_ProvisioningIdempotent ==
    \A u \in AuthUsers :
        /\ Cardinality({row \in auth.profiles : row.id = u.id}) <= 1
        /\ Cardinality({row \in auth.companies : row.email = u.id}) <= 1

\* C27: in every state of the provider, profile is set only if user is.
\* A callback that awaited fetchOrCreateProfile tests mounted and
\* profileData only (lines 452-454, 479-481): when the sign-out event or
\* logout clears user and profile while the call is in flight, the call's
\* return sets the profile of the user who left, and the statement fails.
C27_ProfileOnlyWithUser ==
    auth.profile # NoProfile => auth.user # NoSessionUser


(***************************************************************************)
(* Termination of the two asynchronous handlers (SpecSettling).    *)
(***************************************************************************)
\* the step in which execution i of processWithAI ends
ExtEnds(i) == i \in 1..Len(ext) /\ ext[i].pc # "done" /\ ext'[i].pc = "done"

\* the step in which execution c of handleSaveTransactions ends
CommitEnds(c) == c \in 1..Len(commits) /\ commits[c].pc # "done" /\ commits'[c].pc = "done"

\* C29: provided each awaited network call settles, every started
\* processWithAI ends and every started handleSaveTransactions ends;
\* processWithAI ends, on success or on failure at any step, with
\* uploading = false, processing = false and processingStep = "";
\* handleSaveTransactions ends with saving = false; a step of processWithAI
\* clears the selected file when the extraction succeeded and leaves it as
\* it was otherwise.
C29_HandlersSettle ==
    /\ \A i \in 1..MaxExtractions :
          (Len(ext) >= i) ~> (Len(ext) >= i /\ ext[i].pc = "done")
    /\ \A c \in 1..MaxCommits :
          (Len(commits) >= c) ~> (Len(commits) >= c /\ commits[c].pc = "done")
    /\ [][/\ \A i \in 1..Len(ext) :
               ExtEnds(i) =>
                   /\ ~upload'.uploading /\ ~upload'.processing
                   /\ upload'.processingStep = ""
                   /\ upload'.selectedFile =
                          IF ext'[i].extracted THEN NoFile ELSE upload.selectedFile
          /\ ext' # ext /\ (\A i \in 1..Len(ext) : ~ExtEnds(i) \/ ~ext'[i].extracted)
                => upload'.selectedFile = upload.selectedFile
          /\ \A c \in 1..Len(commits) : CommitEnds(c) => ~page'.saving]_vars

\* an extraction that succeeded and cleared the file, then a commit that
\* failed at the bulk insert: both have ended
C29_Witness ==
    /\ Len(ext) = 1 /\ ext[1].pc = "done" /\ ext[1].extracted
    /\ upload.selectedFile = NoFile /\ ~upload.processing /\ ~upload.uploading
    /\ upload.processingStep = ""
    /\ Len(commits) = 1 /\ commits[1].pc = "done" /\ commits[1].failedAt = "rows"
    /\ ~page.saving
====
